---- MODULE Spec2Model ----
(***************************************************************************)
(* A model of the SPDY/3 session layer of kr/spdy (package spdyframing):   *)
(* the session's reader goroutine, the per-stream operations, the send     *)
(* window (semaphore), the receive pipe over the fixed-size buffer, and    *)
(* the frames that reach the framer.                                       *)
(*                                                                         *)
(* Every lock-protected critical section and every unsynchronised access   *)
(* to a field shared between goroutines is one atomic step; the steps of   *)
(* different goroutines interleave freely.  Payloads are modelled by their *)
(* lengths, errors by their names.                                          *)
(***************************************************************************)
EXTENDS Integers, Sequences, FiniteSets, Bags, TLC

(***************************************************************************)
(* Bounds of the model.                                                    *)
(***************************************************************************)
\* frames the reader takes from the framer before the framer must fail
MaxIn == 3
\* frames the framer accepts before further writes block
MaxWire == 4
\* largest stream id that is opened or accepted
MaxId == 5
\* calls the user goroutines make on the session and its streams
MaxCall == 4

(***************************************************************************)
(* Program constants.                                                      *)
(***************************************************************************)
\* const defaultInitWnd = 64 * 1024
defaultInitWnd == 65536
\* the largest int32: semaphore.n and Session.initwnd are int32
MaxInt32 == 2147483647

Ids == 1 .. MaxId
Tasks == {"t1", "t2"}
NoTask == "none"

\* an http.Header: the names of its plain fields, and the values of :path,
\* :status, :version and Content-Length as sequences of characters, empty
\* for a field the header does not have; nil says that the map itself is nil
HttpHeader(fields, path, status, version, cl) ==
    [nil |-> FALSE, fields |-> fields, path |-> path, status |-> status,
     version |-> version, cl |-> cl]
NilHeader == [HttpHeader({}, <<>>, <<>>, <<>>, <<>>) EXCEPT !.nil = TRUE]
Hdrs == {HttpHeader({"X"}, <<>>, <<>>, <<>>, <<>>)}

\* error values
NoErr == "nil"
errClosed == "closed"
errNotReadable == "not readable"
errCannotReply == "cannot reply"
errNotWritable == "not writable; must reply first"
errFlowControl == "flow control"
errClosing == "closing"
errBadIncrement == "bad increment"
errBufClosed == "buffer closed"
errBufFull == "write on full buffer"
errBufEmpty == "read from empty buffer"
errEOF == "EOF"
errFramerWrite == "framer write error"
errFramerRead == "framer read error"
resetError(status) == "stream was reset: " \o status

\* RstStreamStatus values used by the session
ProtocolError == "ProtocolError"
InvalidStream == "InvalidStream"
RefusedStream == "RefusedStream"
StreamAlreadyClosed == "StreamAlreadyClosed"
FlowControlError == "FlowControlError"
InternalError == "InternalError"

Min(a, b) == IF a < b THEN a ELSE b

(***************************************************************************)
(* Frames.  One record shape for every frame type: id is the stream id     *)
(* (the ping id of a PING), fin/uni the flags, h the header block, status  *)
(* the RST_STREAM status, and <<hi, v>> a 32-bit unsigned field (payload   *)
(* length of DATA, DeltaWindowSize, SETTINGS value) split into its top bit *)
(* hi and its low 31 bits v.                                               *)
(***************************************************************************)
Frame(t, id, fin, uni, h, status, hi, v) ==
    [t |-> t, id |-> id, fin |-> fin, uni |-> uni, h |-> h,
     status |-> status, hi |-> hi, v |-> v]
SynStreamFrame(id, h, fin, uni) == Frame("SYN_STREAM", id, fin, uni, h, "", 0, 0)
SynReplyFrame(id, h, fin) == Frame("SYN_REPLY", id, fin, FALSE, h, "", 0, 0)
RstStreamFrame(id, status) == Frame("RST_STREAM", id, FALSE, FALSE, NilHeader, status, 0, 0)
DataFrame(id, len, fin) == Frame("DATA", id, fin, FALSE, NilHeader, "", 0, len)
WindowUpdateFrame(id, hi, v) == Frame("WINDOW_UPDATE", id, FALSE, FALSE, NilHeader, "", hi, v)
PingFrame(id) == Frame("PING", id, FALSE, FALSE, NilHeader, "", 0, 0)
\* a SETTINGS frame with one entry; status holds the entry's SettingsId
SettingsFrame(sid, hi, v) == Frame("SETTINGS", 0, FALSE, FALSE, NilHeader, sid, hi, v)
SettingsInitialWindowSize == "InitialWindowSize"

(***************************************************************************)
(* int32 arithmetic.                                                       *)
(***************************************************************************)
\* int32(u) of the uint32 u = hi * 2^31 + v
ToInt32(hi, v) == IF hi = 1 THEN (v - MaxInt32) - 1 ELSE v
\* a + b in int32 (two's complement wrap-around)
AddInt32(a, b) ==
    IF a > 0 /\ b > 0 /\ a > MaxInt32 - b
    THEN ((a - MaxInt32) - 1) + ((b - MaxInt32) - 1)
    ELSE IF a < 0 /\ b < 0 /\ a < ((0 - MaxInt32) - 1) - b
    THEN ((a + MaxInt32) + 1) + ((b + MaxInt32) + 1)
    ELSE a + b

(***************************************************************************)
(* buffer: the fixed-size buffer, by its indices.  cap is len(b.buf).      *)
(***************************************************************************)
NewBuffer == [r |-> 0, w |-> 0, closed |-> FALSE]
BufLen(b) == b.w - b.r

\* a Read that reports an empty open buffer only when it returned no byte
BufRead_NilOnData(b, size) ==
    LET n == Min(size, b.w - b.r)
        r1 == b.r + n
    IN [b |-> [b EXCEPT !.r = r1],
        n |-> n,
        err |-> IF b.closed /\ r1 = b.w THEN errEOF
                ELSE IF r1 = b.w /\ n = 0 THEN errBufEmpty
                ELSE NoErr]

\* buffer.Read(p) with len(p) = size: [b |-> buffer after, n |-> bytes, err |-> error]
BufRead(b, size) ==
    LET n == Min(size, b.w - b.r)
        r1 == b.r + n
    IN [b |-> [b EXCEPT !.r = r1],
        n |-> n,
        err |-> IF b.closed /\ r1 = b.w THEN errEOF
                ELSE IF r1 = b.w THEN errBufEmpty
                ELSE NoErr]

\* a Write that never moves the unread data to the beginning
BufSlide_Never(b, len, cap) == b

\* the slide of buffer.Write: existing data moves to the beginning
BufSlide(b, len, cap) ==
    IF b.r > 0 /\ len > cap - b.w
    THEN [b EXCEPT !.w = b.w - b.r, !.r = 0]
    ELSE b

\* a copy that does not stop at the end of the buffer
BufCopyIn_NoCap(b, len, cap) == len

\* n = copy(b.buf[b.w:], p)
BufCopyIn(b, len, cap) == Min(len, cap - b.w)

\* buffer.Write(p) with len(p) = len
BufWrite(b, len, cap) ==
    IF b.closed
    THEN [b |-> b, n |-> 0, err |-> errBufClosed]
    ELSE LET b1 == BufSlide(b, len, cap)
             n == BufCopyIn(b1, len, cap)
         IN [b |-> [b1 EXCEPT !.w = b1.w + n],
             n |-> n,
             err |-> IF n < len THEN errBufFull ELSE NoErr]

BufClose(b) == [b EXCEPT !.closed = TRUE]

(***************************************************************************)
(* pipe: the blocking reader over the buffer, with a sticky close error.   *)
(***************************************************************************)
NewPipe == [b |-> NewBuffer, err |-> NoErr]

\* pipe.Read blocks while this holds
PipeMustWait(p) == BufLen(p.b) = 0 /\ ~p.b.closed

\* pipe.Read(p), once it does not block
PipeRead(p, size) ==
    LET res == BufRead(p.b, size)
    IN [p |-> [p EXCEPT !.b = res.b],
        n |-> res.n,
        err |-> IF res.err = errEOF /\ p.err # NoErr THEN p.err ELSE res.err]

PipeWrite(p, len, cap) ==
    LET res == BufWrite(p.b, len, cap)
    IN [p |-> [p EXCEPT !.b = res.b], n |-> res.n, err |-> res.err]

\* a Close whose last error wins
PipeClose_LastWins(p, err) == [b |-> BufClose(p.b), err |-> err]

\* pipe.Close(err): the first error wins
PipeClose(p, err) ==
    [b |-> BufClose(p.b), err |-> IF p.b.closed THEN p.err ELSE err]

(***************************************************************************)
(* semaphore: the send window.                                             *)
(***************************************************************************)
NewSemaphore(n) == [n |-> n, closed |-> FALSE, err |-> NoErr]

\* Dec waits while this holds
SemMustWait(s) == s.n < 1 /\ ~s.closed

\* a Dec that grants credit and leaves it in the counter
SemDec_KeepsCredit(s, n) ==
    IF s.closed
    THEN [s |-> s, n |-> 0, err |-> s.err]
    ELSE [s |-> s, n |-> IF s.n < n THEN s.n ELSE n, err |-> NoErr]

\* a Dec that grants all it is asked for
SemDec_GrantsAll(s, n) ==
    IF s.closed
    THEN [s |-> s, n |-> 0, err |-> s.err]
    ELSE [s |-> [s EXCEPT !.n = s.n - n], n |-> n, err |-> NoErr]

\* semaphore.Dec(n), once it does not wait
SemDec(s, n) ==
    IF s.closed
    THEN [s |-> s, n |-> 0, err |-> s.err]
    ELSE LET g == IF s.n < n THEN s.n ELSE n
         IN [s |-> [s EXCEPT !.n = s.n - g], n |-> g, err |-> NoErr]

\* an Inc that does not look for the wrap
incRejected_NoWrapCheck(n, wrapped) == n < 1

\* if n < 1 || wrapped { return errors.New("bad increment") }
incRejected(n, wrapped) == n < 1 \/ wrapped

\* semaphore.Inc(n)
SemInc(s, n) ==
    LET prev == s.n
        next == AddInt32(prev, n)
        wrapped == prev > 0 /\ next < 0
    IN [s |-> [s EXCEPT !.n = next],
        err |-> IF incRejected(n, wrapped) THEN errBadIncrement ELSE NoErr]

\* a Close whose last error wins
SemClose_LastWins(s, err) == [s EXCEPT !.closed = TRUE, !.err = err]

\* semaphore.Close(err)
SemClose(s, err) ==
    IF ~s.closed THEN [s EXCEPT !.closed = TRUE, !.err = err] ELSE s

(***************************************************************************)
(* State.                                                                  *)
(***************************************************************************)
VARIABLES
    \* Session
    isServer,    \* not modified after Start
    nextSynId,   \* next stream id Open allocates
    lastRecvId,  \* last accepted remote stream id (reader goroutine only)
    initwnd,     \* send window of streams created from now on
    closing,     \* set by teardown
    rstreams,    \* the stream table: the ids whose stream is registered
    err,         \* the framer's read error
    done,        \* the done channel is closed
    openMu,      \* the task holding openMu, or NoTask
    \* Streams, by id
    st,
    \* Framer
    wire,        \* the frames WriteFrame has written, in order
    wbroken,     \* the framer's WriteFrame returns an error at present
    nRead,       \* frames ReadFrame has returned
    \* Goroutines
    rd,          \* the reader goroutine: where it is, what it still has to do
    gobag,       \* frames of started "go s.writeFrame / go s.reset", not yet written
    launched,    \* per stream id, how often "go s.handle(st)" ran
    known,       \* ids of the streams user code holds (from Open or the handler)
    tk,          \* the user goroutines: the call each is in
    ret,         \* per user goroutine, what its last call returned
    hv,          \* history of the run, for the properties only
    nCall,       \* calls the user goroutines have made
    resp         \* per user goroutine, the HTTP response it serves a stream with

vars == <<isServer, nextSynId, lastRecvId, initwnd, closing, rstreams, err, done,
          openMu, st, wire, wbroken, nRead, rd, gobag, launched, known,
          tk, ret, hv, nCall, resp>>

(***************************************************************************)
(* Stream objects.                                                         *)
(***************************************************************************)
\* newStream(sess); made says the object exists
newStream(wnd0) ==
    [made |-> TRUE, rclosed |-> FALSE, wclosed |-> FALSE, wready |-> FALSE,
     wnd |-> NewSemaphore(wnd0), pipe |-> NewPipe,
     header |-> NilHeader, reply |-> FALSE, slot |-> <<>>]
NoStream == [newStream(0) EXCEPT !.made = FALSE]

\* Stream.rclose / Stream.wclose on the stream record (maybeRemove apart)
rclose(s, e) == [s EXCEPT !.rclosed = TRUE, !.pipe = PipeClose(@, e)]
wclose(s, e) == [s EXCEPT !.wclosed = TRUE, !.wnd = SemClose(@, e)]

\* a maybeRemove that drops a stream as soon as one direction is closed
maybeRemove_Either(tbl, id, s) ==
    IF s.rclosed \/ s.wclosed THEN tbl \ {id} ELSE tbl

\* Session.maybeRemove(st): the table after it
maybeRemove(tbl, id, s) ==
    IF s.rclosed /\ s.wclosed THEN tbl \ {id} ELSE tbl

Idle == [pc |-> "idle", id |-> 0, fin |-> FALSE, uni |-> FALSE,
         size |-> 0, n |-> 0, sent |-> 0, e |-> NoErr, status |-> "",
         h |-> NilHeader, held |-> FALSE, k |-> 0]
NoRet == [op |-> "", id |-> 0, n |-> 0, err |-> NoErr, h |-> NilHeader]
\* no response: w.wroteHeader is false in a new(response); pc is where
\* serveStream is, code, fin and after are the arguments of writeHeader and
\* where it returns to, size is len(p) of Write(p)
NoResp == [pc |-> "", id |-> 0, wroteHeader |-> FALSE, code |-> 0, fin |-> FALSE,
           after |-> "", size |-> 0, method |-> ""]
Ret(op, id, n, e, h) == [op |-> op, id |-> id, n |-> n, err |-> e, h |-> h]

\* goroutines waiting in c.Wait() of stream id's send window / receive pipe
Waiters(tkf, waitpc, id) == {u \in Tasks : tkf[u].pc = waitpc /\ tkf[u].id = id}

\* c.Signal(): one waiting goroutine, if there is one, leaves c.Wait()
Signal(tkf, waitpc, runpc, id) ==
    IF Waiters(tkf, waitpc, id) = {}
    THEN {tkf}
    ELSE {[tkf EXCEPT ![u].pc = runpc] : u \in Waiters(tkf, waitpc, id)}
SignalWnd(tkf, id) == Signal(tkf, "decWait", "dec", id)
SignalPipe(tkf, id) == Signal(tkf, "readWait", "read", id)

\* select { case st.reply <- f.Headers: ... default: ... } takes the send
replySendable(s) == s.reply /\ s.slot = <<>>

(***************************************************************************)
(* The statements that close a stream.  Each is a critical section of its  *)
(* own (pipe, semaphore, Session.mu) or an unsynchronised write of one     *)
(* field, so each is a step of the goroutine that runs it.                 *)
(***************************************************************************)
Stmt(op, e) == [op |-> op, e |-> e]

\* func (s *Stream) rclose(err error)
rcloseStmts(e) == <<Stmt("rclosed", e), Stmt("pipe.Close", e), Stmt("maybeRemove", e)>>

\* func (s *Stream) wclose(err error)
wcloseStmts(e) == <<Stmt("wclosed", e), Stmt("wnd.Close", e), Stmt("maybeRemove", e)>>

\* the stream record after statement x
StmtStream(s, x) ==
    CASE x.op = "rclosed" -> [s EXCEPT !.rclosed = TRUE]
      [] x.op = "wclosed" -> [s EXCEPT !.wclosed = TRUE]
      [] x.op = "pipe.Close" -> [s EXCEPT !.pipe = PipeClose(@, x.e)]
      [] x.op = "wnd.Close" -> [s EXCEPT !.wnd = SemClose(@, x.e)]
      [] x.op = "reply = make" -> [s EXCEPT !.reply = TRUE]
      [] x.op = "reply <- nil" ->
            IF replySendable(s) THEN [s EXCEPT !.slot = <<NilHeader>>] ELSE s
      [] OTHER -> s

\* the stream table after statement x, s being the stream record after it
StmtTable(tbl, id, s, x) ==
    IF x.op = "maybeRemove" THEN maybeRemove(tbl, id, s) ELSE tbl

\* the user goroutines after the c.Signal() of statement x
StmtSignal(tkf, id, x) ==
    CASE x.op = "pipe.Close" -> SignalPipe(tkf, id)
      [] x.op = "wnd.Close" -> SignalWnd(tkf, id)
      [] OTHER -> {tkf}

(***************************************************************************)
(* Session.writeFrame: wmu held around Framer.WriteFrame.                  *)
(***************************************************************************)
CanWrite == wbroken \/ Len(wire) < MaxWire
WriteErr == IF wbroken THEN errFramerWrite ELSE NoErr
Written(f) == IF wbroken THEN wire ELSE Append(wire, f)

\* the handle's header Open and Reply send
SentHeader == HttpHeader({"X"}, <<>>, <<>>, <<>>, <<>>)

ReplyPcs == {"replySet", "replyWrite", "replyClose"}
WritePcs == {"wready", "wcheck", "dec", "decWait", "wdata", "wreset", "wresetClose"}
ClosePcs == {"cready", "closeWrite", "closeWclose"}
InCall(pcs, id, t) == \E u \in Tasks \ {t} : tk[u].pc \in pcs /\ tk[u].id = id

Return(t, r) ==
    /\ tk' = [tk EXCEPT ![t] = Idle]
    /\ ret' = [ret EXCEPT ![t] = r]

\* one more call by a user goroutine
Call ==
    /\ nCall < MaxCall
    /\ nCall' = nCall + 1
    /\ UNCHANGED resp

\* a call begins: what the goroutine's previous call returned is forgotten
Called(t) == ret' = [ret EXCEPT ![t] = NoRet]

\* goroutine t runs its next statement of stmts on stream id; after the last
\* one it goes on as tEnd, and what the goroutines' calls returned is retEnd
RunStmt(t, id, stmts, tEnd, retEnd) ==
    LET x == stmts[tk[t].k + 1]
        s2 == StmtStream(st[id], x)
        last == tk[t].k + 1 = Len(stmts)
        tk1 == [tk EXCEPT ![t] = IF last THEN tEnd ELSE [tk[t] EXCEPT !.k = @ + 1]]
    IN /\ st' = [st EXCEPT ![id] = s2]
       /\ rstreams' = StmtTable(rstreams, id, s2, x)
       /\ tk' \in StmtSignal(tk1, id, x)
       /\ ret' = IF last THEN retEnd ELSE ret

\* the next statement of the deferred rclose / wclose calls of goroutine t's
\* operation on stream id; after the last one the operation returns r
ClosedReturn(t, id, stmts, r) ==
    RunStmt(t, id, stmts, Idle, [ret EXCEPT ![t] = r])

(***************************************************************************)
(* Session.Open                                                            *)
(***************************************************************************)
\* a session whose Open does not interlock on openMu
openMuFree_NoInterlock == TRUE

\* openMu.Lock() succeeds
openMuFree == openMu = NoTask

\* st := newStream(s); st.wready = true
OpenCall(t, fin, uni) ==
    /\ tk[t].pc = "idle"
    /\ Call
    /\ nextSynId + 2 * Cardinality({u \in Tasks : tk[u].pc = "openLock"}) <= MaxId
    /\ tk' = [tk EXCEPT ![t] = [Idle EXCEPT !.pc = "openLock", !.fin = fin,
                                             !.uni = uni, !.n = initwnd]]
    /\ UNCHANGED <<isServer, nextSynId, lastRecvId, initwnd, closing, rstreams, err,
                   done, openMu, st, wire, wbroken, nRead, rd, gobag,
                   launched, known, hv>>
    /\ Called(t)

\* an add that registers streams while the session is closing
addRefused_Never == FALSE

\* if s.closing { return errors.New("closing") }
addRefused == closing

\* s.openMu.Lock(); err := s.add(st)
OpenAdd(t) ==
    /\ tk[t].pc = "openLock"
    /\ openMuFree
    /\ IF addRefused
       THEN /\ Return(t, Ret("Open", 0, 0, errClosing, NilHeader))
            /\ UNCHANGED <<nextSynId, rstreams, st, openMu>>
       ELSE /\ st' = [st EXCEPT ![nextSynId] =
                         [newStream(tk[t].n) EXCEPT !.wready = TRUE]]
            /\ rstreams' = rstreams \cup {nextSynId}
            /\ nextSynId' = nextSynId + 2
            /\ openMu' = t
            /\ tk' = [tk EXCEPT ![t].pc = "openFlags", ![t].id = nextSynId]
            /\ UNCHANGED ret
    /\ UNCHANGED <<isServer, lastRecvId, initwnd, closing, err, done, wire, wbroken,
                   nRead, rd, gobag, launched, known, hv>>
    /\ UNCHANGED <<nCall, resp>>

\* an Open that sets every stream up for a reply, unidirectional or not
openFlagStmts_AlwaysReply(uni, fin) ==
    <<Stmt("reply = make", NoErr)>>
    \o (IF fin THEN wcloseStmts(errNotWritable) ELSE <<>>)

\* if flag&ControlFlagUnidirectional != 0 { st.rclose(errNotReadable) }
\* else { st.reply = make(chan http.Header, 1) }
\* if flag&ControlFlagFin != 0 { st.wclose(errNotWritable) }
openFlagStmts(uni, fin) ==
    (IF uni THEN rcloseStmts(errNotReadable) ELSE <<Stmt("reply = make", NoErr)>>)
    \o (IF fin THEN wcloseStmts(errNotWritable) ELSE <<>>)

\* the closing statements goroutine t has to run where it is in its call, tk[t].k
\* of them done: Open's flags (263-270) and failure (275-276), the deferred
\* wclose of Reply (335) and Close (403), the deferred rclose and wclose of Reset
\* (410-411), also of the Reset(InternalError) of writeData (381)
TaskStmts(t) ==
    CASE tk[t].pc = "openFlags" -> openFlagStmts(tk[t].uni, tk[t].fin)
      [] tk[t].pc = "openFail" ->
            rcloseStmts(errFramerWrite) \o wcloseStmts(errFramerWrite)
      [] tk[t].pc \in {"replyClose", "closeWclose"} -> wcloseStmts(errClosed)
      [] tk[t].pc = "resetClose" ->
            rcloseStmts(resetError(tk[t].status)) \o wcloseStmts(resetError(tk[t].status))
      [] tk[t].pc = "wresetClose" ->
            rcloseStmts(resetError(InternalError)) \o wcloseStmts(resetError(InternalError))
      [] OTHER -> <<>>

\* the UNIDIRECTIONAL and FIN flags of Open, one statement at a time
OpenFlags(t) ==
    /\ tk[t].pc = "openFlags"
    /\ RunStmt(t, tk[t].id, TaskStmts(t),
               [tk[t] EXCEPT !.pc = "openWrite", !.k = 0], ret)
    /\ UNCHANGED <<isServer, nextSynId, lastRecvId, initwnd, closing, err, done,
                   openMu, wire, wbroken, nRead, rd, gobag, launched,
                   known, hv>>
    /\ UNCHANGED <<nCall, resp>>

\* err = s.writeFrame(f); on failure st.rclose(err), st.wclose(err), one
\* statement at a time; the deferred openMu.Unlock() when Open returns
OpenWrite(t) ==
    /\ tk[t].pc \in {"openWrite", "openFail"}
    /\ LET id == tk[t].id
       IN IF tk[t].pc = "openWrite"
          THEN /\ CanWrite
               /\ wire' = Written(SynStreamFrame(id, SentHeader, tk[t].fin, tk[t].uni))
               /\ IF wbroken
                  THEN /\ tk' = [tk EXCEPT ![t].pc = "openFail", ![t].k = 0]
                       /\ UNCHANGED <<known, ret, openMu>>
                  ELSE /\ known' = known \cup {id}
                       /\ Return(t, Ret("Open", id, 0, NoErr, NilHeader))
                       /\ openMu' = NoTask
               /\ UNCHANGED <<st, rstreams>>
          ELSE /\ ClosedReturn(t, id, TaskStmts(t),
                               Ret("Open", 0, 0, errFramerWrite, NilHeader))
               /\ openMu' = IF tk[t].k + 1 = Len(TaskStmts(t)) THEN NoTask ELSE openMu
               /\ UNCHANGED <<wire, known>>
    /\ UNCHANGED <<isServer, nextSynId, lastRecvId, initwnd, closing, err, done,
                   wbroken, nRead, rd, gobag, launched, hv>>
    /\ UNCHANGED <<nCall, resp>>

(***************************************************************************)
(* Stream operations.  A call starts from "idle" on a stream the user code *)
(* holds; opFrame is what no stream operation changes.                     *)
(***************************************************************************)
opFrame == <<isServer, nextSynId, lastRecvId, initwnd, closing, err, done, openMu,
             wbroken, nRead, rd, gobag, launched, known>>

\* history: calls on one stream that overlap in time
NoteCall(t, id, op) ==
    hv' = [hv EXCEPT
             !.replyOverlap = IF op = "Reply" /\ InCall(ReplyPcs, id, t)
                              THEN @ \cup {id} ELSE @,
             !.early = IF \/ op \in {"Write", "Close"} /\ InCall(ReplyPcs, id, t)
                          \/ op = "Reply" /\ InCall(WritePcs \cup ClosePcs, id, t)
                       THEN @ \cup {id} ELSE @]

(***************************************************************************)
(* Stream.Reply                                                            *)
(***************************************************************************)
\* a Reply that never refuses
replyRefused_Never(s) == FALSE

\* if s.wready { return errCannotReply }
replyRefused(s) == s.wready

\* Reply(h, flag): the wready check
ReplyWith(t, id, fin, h) ==
    /\ tk[t].pc = "idle"
    /\ Call
    /\ id \in known
    /\ NoteCall(t, id, "Reply")
    /\ IF replyRefused(st[id])
       THEN Return(t, Ret("Reply", id, 0, errCannotReply, NilHeader))
       ELSE /\ tk' = [tk EXCEPT ![t] = [Idle EXCEPT !.pc = "replySet", !.id = id,
                                                    !.fin = fin, !.h = h]]
            /\ Called(t)
    /\ UNCHANGED <<opFrame, rstreams, st, wire>>

ReplyCall(t, id, fin) == ReplyWith(t, id, fin, SentHeader)

\* s.wready = true
ReplySet(t) ==
    /\ tk[t].pc = "replySet"
    /\ st' = [st EXCEPT ![tk[t].id].wready = TRUE]
    /\ tk' = [tk EXCEPT ![t].pc = "replyWrite"]
    /\ UNCHANGED <<opFrame, rstreams, wire, ret, hv>>
    /\ UNCHANGED <<nCall, resp>>

\* return s.sess.writeFrame(f)
ReplyWrite(t) ==
    /\ tk[t].pc = "replyWrite"
    /\ CanWrite
    /\ wire' = Written(SynReplyFrame(tk[t].id, tk[t].h, tk[t].fin))
    /\ IF tk[t].fin
       THEN /\ tk' = [tk EXCEPT ![t].pc = "replyClose", ![t].e = WriteErr, ![t].k = 0]
            /\ UNCHANGED ret
       ELSE Return(t, Ret("Reply", tk[t].id, 0, WriteErr, NilHeader))
    /\ UNCHANGED <<opFrame, rstreams, st, hv>>
    /\ UNCHANGED <<nCall, resp>>

\* defer s.wclose(errClosed), one statement at a time
ReplyClose(t) ==
    /\ tk[t].pc = "replyClose"
    /\ ClosedReturn(t, tk[t].id, TaskStmts(t),
                    Ret("Reply", tk[t].id, 0, tk[t].e, NilHeader))
    /\ UNCHANGED <<opFrame, wire, hv>>
    /\ UNCHANGED <<nCall, resp>>

\* if !s.wready { return 0, errNotWritable }
notReady(s) == ~s.wready

\* Write(p) with len(p) = size >= 1: if s.wclosed of the first writeData
WriteCall(t, id, size) ==
    /\ tk[t].pc = "idle"
    /\ Call
    /\ id \in known
    /\ NoteCall(t, id, "Write")
    /\ IF st[id].wclosed
       THEN Return(t, Ret("Write", id, 0, errClosed, NilHeader))
       ELSE /\ tk' = [tk EXCEPT ![t] = [Idle EXCEPT !.pc = "wready", !.id = id,
                                                    !.size = size]]
            /\ Called(t)
    /\ UNCHANGED <<opFrame, rstreams, st, wire>>

\* if !s.wready of writeData
WriteReady(t) ==
    /\ tk[t].pc = "wready"
    /\ IF notReady(st[tk[t].id])
       THEN Return(t, Ret("Write", tk[t].id, tk[t].sent, errNotWritable, NilHeader))
       ELSE /\ tk' = [tk EXCEPT ![t].pc = "dec"]
            /\ UNCHANGED ret
    /\ UNCHANGED <<opFrame, rstreams, st, wire, hv>>
    /\ UNCHANGED <<nCall, resp>>

\* if s.wclosed of a later writeData of the same Write
WriteCheck(t) ==
    /\ tk[t].pc = "wcheck"
    /\ IF st[tk[t].id].wclosed
       THEN Return(t, Ret("Write", tk[t].id, tk[t].sent, errClosed, NilHeader))
       ELSE /\ tk' = [tk EXCEPT ![t].pc = "wready"]
            /\ UNCHANGED ret
    /\ UNCHANGED <<opFrame, rstreams, st, wire, hv>>
    /\ UNCHANGED <<nCall, resp>>

\* n, err := s.wnd.Dec(int32(len(p)))
WriteDec(t) ==
    /\ tk[t].pc = "dec"
    /\ LET id == tk[t].id
           res == SemDec(st[id].wnd, tk[t].size - tk[t].sent)
       IN IF SemMustWait(st[id].wnd)
          THEN /\ tk' = [tk EXCEPT ![t].pc = "decWait"]
               /\ UNCHANGED st
          ELSE IF res.err # NoErr
          THEN /\ tk' = [tk EXCEPT ![t].pc = "wreset", ![t].e = res.err]
               /\ UNCHANGED st
          ELSE /\ tk' = [tk EXCEPT ![t].pc = "wdata", ![t].n = res.n]
               /\ st' = [st EXCEPT ![id].wnd = res.s]
    /\ UNCHANGED <<opFrame, rstreams, wire, ret, hv>>
    /\ UNCHANGED <<nCall, resp>>

\* a Write whose loop does not advance in p after a frame
WriteData_NoAdvance(t) ==
    /\ tk[t].pc = "wdata"
    /\ CanWrite
    /\ wire' = Written(DataFrame(tk[t].id, tk[t].n, FALSE))
    /\ IF wbroken
       THEN Return(t, Ret("Write", tk[t].id, tk[t].sent, errFramerWrite, NilHeader))
       ELSE /\ tk' = [tk EXCEPT ![t].pc = "wcheck", ![t].n = 0]
            /\ UNCHANGED ret
    /\ UNCHANGED <<opFrame, rstreams, st, hv>>
    /\ UNCHANGED <<nCall, resp>>

\* err = s.sess.writeFrame(&DataFrame{...}), and Write's loop
WriteData(t) ==
    /\ tk[t].pc = "wdata"
    /\ CanWrite
    /\ wire' = Written(DataFrame(tk[t].id, tk[t].n, FALSE))
    /\ IF wbroken
       THEN Return(t, Ret("Write", tk[t].id, tk[t].sent, errFramerWrite, NilHeader))
       ELSE IF tk[t].sent + tk[t].n < tk[t].size
       THEN /\ tk' = [tk EXCEPT ![t].pc = "wcheck", ![t].sent = @ + tk[t].n,
                                ![t].n = 0]
            /\ UNCHANGED ret
       ELSE Return(t, Ret("Write", tk[t].id, tk[t].sent + tk[t].n, NoErr, NilHeader))
    /\ UNCHANGED <<opFrame, rstreams, st, hv>>
    /\ UNCHANGED <<nCall, resp>>

\* a writeData that does not send RST_STREAM after Dec failed
WriteReset_Silent(t) ==
    /\ tk[t].pc = "wreset"
    /\ tk' = [tk EXCEPT ![t].pc = "wresetClose", ![t].k = 0]
    /\ UNCHANGED <<opFrame, rstreams, st, wire, ret, hv>>
    /\ UNCHANGED <<nCall, resp>>

\* s.Reset(InternalError) after Dec failed: the RST_STREAM
WriteReset(t) ==
    /\ tk[t].pc = "wreset"
    /\ CanWrite
    /\ wire' = Written(RstStreamFrame(tk[t].id, InternalError))
    /\ tk' = [tk EXCEPT ![t].pc = "wresetClose", ![t].k = 0]
    /\ UNCHANGED <<opFrame, rstreams, st, ret, hv>>
    /\ UNCHANGED <<nCall, resp>>

\* the deferred rclose and wclose of that Reset, one statement at a time;
\* writeData returns Dec's error
WriteResetClose(t) ==
    /\ tk[t].pc = "wresetClose"
    /\ ClosedReturn(t, tk[t].id, TaskStmts(t),
                    Ret("Write", tk[t].id, tk[t].sent, tk[t].e, NilHeader))
    /\ UNCHANGED <<opFrame, wire, hv>>
    /\ UNCHANGED <<nCall, resp>>

\* Close(): if s.wclosed
CloseCall(t, id) ==
    /\ tk[t].pc = "idle"
    /\ Call
    /\ id \in known
    /\ NoteCall(t, id, "Close")
    /\ IF st[id].wclosed
       THEN Return(t, Ret("Close", id, 0, errClosed, NilHeader))
       ELSE /\ tk' = [tk EXCEPT ![t] = [Idle EXCEPT !.pc = "cready", !.id = id]]
            /\ Called(t)
    /\ UNCHANGED <<opFrame, rstreams, st, wire>>

\* if !s.wready of Close
CloseReady(t) ==
    /\ tk[t].pc = "cready"
    /\ IF notReady(st[tk[t].id])
       THEN Return(t, Ret("Close", tk[t].id, 0, errNotWritable, NilHeader))
       ELSE /\ tk' = [tk EXCEPT ![t].pc = "closeWrite"]
            /\ UNCHANGED ret
    /\ UNCHANGED <<opFrame, rstreams, st, wire, hv>>
    /\ UNCHANGED <<nCall, resp>>

\* return s.sess.writeFrame(&DataFrame{StreamId: s.id, Flags: DataFlagFin})
CloseWrite(t) ==
    /\ tk[t].pc = "closeWrite"
    /\ CanWrite
    /\ wire' = Written(DataFrame(tk[t].id, 0, TRUE))
    /\ tk' = [tk EXCEPT ![t].pc = "closeWclose", ![t].e = WriteErr]
    /\ UNCHANGED <<opFrame, rstreams, st, ret, hv>>
    /\ UNCHANGED <<nCall, resp>>

\* defer s.wclose(errClosed), one statement at a time
CloseWclose(t) ==
    /\ tk[t].pc = "closeWclose"
    /\ ClosedReturn(t, tk[t].id, TaskStmts(t),
                    Ret("Close", tk[t].id, 0, tk[t].e, NilHeader))
    /\ UNCHANGED <<opFrame, wire, hv>>
    /\ UNCHANGED <<nCall, resp>>

(***************************************************************************)
(* Stream.Reset                                                            *)
(***************************************************************************)
\* return s.sess.reset(s.id, status)
ResetCall(t, id, status) ==
    /\ tk[t].pc = "idle"
    /\ Call
    /\ id \in known
    /\ CanWrite
    /\ wire' = Written(RstStreamFrame(id, status))
    /\ tk' = [tk EXCEPT ![t] = [Idle EXCEPT !.pc = "resetClose", !.id = id,
                                             !.e = WriteErr, !.status = status]]
    /\ Called(t)
    /\ UNCHANGED <<opFrame, rstreams, st, hv>>

\* defer s.wclose(resetError(status)); defer s.rclose(resetError(status)):
\* rclose runs first, one statement at a time
ResetClose(t) ==
    /\ tk[t].pc = "resetClose"
    /\ ClosedReturn(t, tk[t].id, TaskStmts(t),
                    Ret("Reset", tk[t].id, 0, tk[t].e, NilHeader))
    /\ UNCHANGED <<opFrame, wire, hv>>
    /\ UNCHANGED <<nCall, resp>>

(***************************************************************************)
(* Stream.Read and updateWindow                                            *)
(***************************************************************************)
\* Read(p) with len(p) = size
ReadCall(t, id, size) ==
    /\ tk[t].pc = "idle"
    /\ Call
    /\ id \in known
    /\ tk' = [tk EXCEPT ![t] = [Idle EXCEPT !.pc = "read", !.id = id, !.size = size]]
    /\ Called(t)
    /\ UNCHANGED <<opFrame, rstreams, st, wire, hv>>

\* n, err = s.pipe.Read(p)
ReadPipe(t) ==
    /\ tk[t].pc = "read"
    /\ LET id == tk[t].id
           res == PipeRead(st[id].pipe, tk[t].size)
       IN IF PipeMustWait(st[id].pipe)
          THEN /\ tk' = [tk EXCEPT ![t].pc = "readWait"]
               /\ UNCHANGED <<st, ret>>
          ELSE /\ st' = [st EXCEPT ![id].pipe = res.p]
               /\ IF res.n >= 1
                  THEN /\ tk' = [tk EXCEPT ![t].pc = "updWin", ![t].n = res.n,
                                           ![t].e = res.err]
                       /\ UNCHANGED ret
                  ELSE Return(t, Ret("Read", id, 0, res.err, NilHeader))
    /\ UNCHANGED <<opFrame, rstreams, wire, hv>>
    /\ UNCHANGED <<nCall, resp>>

\* a Read that sends no WINDOW_UPDATE
ReadUpdateWindow_Skip(t) ==
    /\ tk[t].pc = "updWin"
    /\ Return(t, Ret("Read", tk[t].id, tk[t].n, tk[t].e, NilHeader))
    /\ UNCHANGED <<opFrame, rstreams, st, wire, hv>>
    /\ UNCHANGED <<nCall, resp>>

\* s.updateWindow(uint32(n)) for n >= 1; its error is dropped
ReadUpdateWindow(t) ==
    /\ tk[t].pc = "updWin"
    /\ CanWrite
    /\ wire' = Written(WindowUpdateFrame(tk[t].id, 0, tk[t].n))
    /\ Return(t, Ret("Read", tk[t].id, tk[t].n, tk[t].e, NilHeader))
    /\ UNCHANGED <<opFrame, rstreams, st, hv>>
    /\ UNCHANGED <<nCall, resp>>

(***************************************************************************)
(* Stream.Header                                                           *)
(***************************************************************************)
\* if s.reply != nil { ... } return s.header
HeaderCall(t, id) ==
    /\ tk[t].pc = "idle"
    /\ Call
    /\ id \in known
    /\ IF st[id].reply
       THEN /\ tk' = [tk EXCEPT ![t] = [Idle EXCEPT !.pc = "hrecv", !.id = id]]
            /\ Called(t)
       ELSE Return(t, Ret("Header", id, 0, NoErr, st[id].header))
    /\ UNCHANGED <<opFrame, rstreams, st, wire, hv>>

\* s.header = <-s.reply: blocks until the slot holds a value
HeaderRecv(t) ==
    /\ tk[t].pc = "hrecv"
    /\ st[tk[t].id].slot # <<>>
    /\ st' = [st EXCEPT ![tk[t].id].header = st[tk[t].id].slot[1],
                        ![tk[t].id].slot = <<>>]
    /\ tk' = [tk EXCEPT ![t].pc = "hnil"]
    /\ UNCHANGED <<opFrame, rstreams, wire, ret, hv>>
    /\ UNCHANGED <<nCall, resp>>

\* s.reply = nil; return s.header
HeaderNil(t) ==
    /\ tk[t].pc = "hnil"
    /\ st' = [st EXCEPT ![tk[t].id].reply = FALSE]
    /\ Return(t, Ret("Header", tk[t].id, 0, NoErr, st[tk[t].id].header))
    /\ UNCHANGED <<opFrame, rstreams, wire, hv>>
    /\ UNCHANGED <<nCall, resp>>

(***************************************************************************)
(* Session.Wait                                                            *)
(***************************************************************************)
\* <-s.done: blocks until the done channel is closed
WaitCall(t) ==
    /\ tk[t].pc = "idle"
    /\ Call
    /\ tk' = [tk EXCEPT ![t] = [Idle EXCEPT !.pc = "wait"]]
    /\ Called(t)
    /\ UNCHANGED <<opFrame, rstreams, st, wire, hv>>

\* return s.err
WaitReturn(t) ==
    /\ tk[t].pc = "wait"
    /\ done
    /\ Return(t, Ret("Wait", 0, 0, err, NilHeader))
    /\ UNCHANGED <<opFrame, rstreams, st, wire, hv>>
    /\ UNCHANGED <<nCall, resp>>

(***************************************************************************)
(* The reader goroutine: Session.read, handleRead and the frame handlers.  *)
(***************************************************************************)
NoFrame == Frame("", 0, FALSE, FALSE, NilHeader, "", 0, 0)
\* the reader between two frames; f is the frame it handles, k the statement
\* of a closing sequence it is at, cur the stream that sequence closes
Reading == [pc |-> "read", f |-> NoFrame, snap |-> {}, k |-> 0, cur |-> 0]

\* go s.reset(id, status) / go s.writeFrame(f): a goroutine that will write f
GoWriteFrame(f) == gobag' = gobag (+) SetToBag({f})

\* a handleSynStream that checks the parity only
synStreamRejected_ParityOnly(f) ==
    LET fromServer == f.id % 2 = 0
    IN isServer = fromServer

\* the test of handleSynStream that rejects a SYN_STREAM
synStreamRejected(f) ==
    LET fromServer == f.id % 2 = 0
    IN isServer = fromServer \/ f.id <= lastRecvId

\* Session.handleSynStream.  One step: until "go s.handle(st)" at its end the
\* new stream is known to the reader goroutine only
handleSynStream(f) ==
    IF synStreamRejected(f)
    THEN /\ GoWriteFrame(RstStreamFrame(f.id, ProtocolError))
         /\ UNCHANGED <<lastRecvId, initwnd, rstreams, st, rd, launched, known, tk>>
    ELSE /\ lastRecvId' = f.id
         /\ IF addRefused
            THEN UNCHANGED <<rstreams, st, launched, known>>
            ELSE LET s0 == [newStream(initwnd) EXCEPT !.header = f.h]
                     s1 == IF f.uni THEN wclose(s0, errClosed) ELSE s0
                     s2 == IF f.fin THEN rclose(s1, errEOF) ELSE s1
                 IN /\ st' = [st EXCEPT ![f.id] = s2]
                    /\ rstreams' = maybeRemove(rstreams \cup {f.id}, f.id, s2)
                    /\ launched' = [launched EXCEPT ![f.id] = @ + 1]
                    /\ known' = known \cup {f.id}
         /\ UNCHANGED <<initwnd, rd, gobag, tk>>

\* handleSynReply: st := s.get(f.StreamId)
handleSynReply(f) ==
    IF f.id \notin rstreams
    THEN /\ GoWriteFrame(RstStreamFrame(f.id, InvalidStream))
         /\ UNCHANGED <<lastRecvId, initwnd, rstreams, st, rd, launched, known, tk>>
    ELSE /\ rd' = [rd EXCEPT !.pc = "synReply", !.f = f]
         /\ UNCHANGED <<lastRecvId, initwnd, rstreams, st, gobag, launched, known, tk>>

\* a Session.set that stores every value of the entry
handleSettings_AnyValue(f) ==
    /\ initwnd' = IF f.status = SettingsInitialWindowSize
                  THEN ToInt32(f.hi, f.v) ELSE initwnd
    /\ UNCHANGED <<lastRecvId, rstreams, st, rd, gobag, launched, known, tk>>

\* Session.set(id, val), for the frame's one entry
handleSettings(f) ==
    /\ initwnd' = IF f.status = SettingsInitialWindowSize /\ f.hi = 0
                  THEN ToInt32(f.hi, f.v) ELSE initwnd
    /\ UNCHANGED <<lastRecvId, rstreams, st, rd, gobag, launched, known, tk>>

\* a handleRead that ignores PING frames
handlePing_Ignored(f) ==
    UNCHANGED <<lastRecvId, initwnd, rstreams, st, rd, gobag, launched, known, tk>>

\* case *PingFrame: go s.writeFrame(f)
handlePing(f) ==
    /\ GoWriteFrame(f)
    /\ UNCHANGED <<lastRecvId, initwnd, rstreams, st, rd, launched, known, tk>>

\* Session.handleWindowUpdate: st := s.get(f.StreamId)
handleWindowUpdate(f) ==
    IF f.id \notin rstreams
    THEN UNCHANGED <<lastRecvId, initwnd, rstreams, st, rd, gobag, launched, known, tk>>
    ELSE /\ rd' = [rd EXCEPT !.pc = "wuInc", !.f = f]
         /\ UNCHANGED <<lastRecvId, initwnd, rstreams, st, gobag, launched, known, tk>>

\* a handleData that does not look at the reader's state
readerClosed_Never(s) == FALSE

\* if s.rclosed { ... } in Stream.handleData
readerClosed(s) == s.rclosed

\* Session.handleData: st := s.get(f.StreamId)
handleData(f) ==
    IF f.id \notin rstreams
    THEN /\ GoWriteFrame(RstStreamFrame(f.id, InvalidStream))
         /\ UNCHANGED <<lastRecvId, initwnd, rstreams, st, rd, launched, known, tk>>
    ELSE /\ rd' = [rd EXCEPT !.pc = "dataCheck", !.f = f]
         /\ UNCHANGED <<lastRecvId, initwnd, rstreams, st, gobag, launched, known, tk>>

\* a frame type handleRead has no case for: logged and ignored
handleOther(f) ==
    UNCHANGED <<lastRecvId, initwnd, rstreams, st, rd, gobag, launched, known, tk>>

handleRead(f) ==
    CASE f.t = "SYN_STREAM" -> handleSynStream(f)
      [] f.t = "SYN_REPLY" -> handleSynReply(f)
      [] f.t = "SETTINGS" -> handleSettings(f)
      [] f.t = "PING" -> handlePing(f)
      [] f.t = "WINDOW_UPDATE" -> handleWindowUpdate(f)
      [] f.t = "DATA" -> handleData(f)
      [] OTHER -> handleOther(f)

\* history: the remote set FLAG_FIN on a SYN_STREAM the session accepted
FinAccepted(f) ==
    f.fin /\ f.t = "SYN_STREAM" /\ ~synStreamRejected(f) /\ ~closing

\* history: the Inc of a WINDOW_UPDATE whose delta, a uint32, is 0 or above
\* 2^31-1, or carries a positive window past 2^31-1
WuBad(f) ==
    \/ f.hi = 1
    \/ f.v = 0
    \/ st[f.id].wnd.n > 0 /\ f.v > MaxInt32 - st[f.id].wnd.n

\* history: the Inc of a WINDOW_UPDATE at a send window that still holds credit
WuStacked(f) == st[f.id].wnd.n >= 1

\* f, err := s.fr.ReadFrame() with err == nil; s.handleRead(f) up to the end
\* of its first critical section
ReadFrame(f) ==
    /\ rd.pc = "read"
    /\ nRead < MaxIn
    /\ nRead' = nRead + 1
    /\ handleRead(f)
    /\ hv' = [hv EXCEPT !.finRecv = IF FinAccepted(f) THEN @ \cup {f.id} ELSE @]
    /\ UNCHANGED <<isServer, nextSynId, closing, err, done, openMu, wire, wbroken, ret>>
    /\ UNCHANGED <<nCall, resp>>

\* the closing statements the reader has to run where it is, rd.k of them done:
\* st.rclose(io.EOF) (209, 434); s.wnd.Close(errFlowControl) and
\* s.rclose(errFlowControl) (418-419, 430-431); one round of teardown's loop
\* (132-137)
ReaderStmts ==
    CASE rd.pc \in {"synReplyFin", "dataFin"} -> rcloseStmts(errEOF)
      [] rd.pc \in {"dataFail", "wuClose"} ->
            <<Stmt("wnd.Close", errFlowControl)>> \o rcloseStmts(errFlowControl)
      [] rd.pc = "teardown" ->
            rcloseStmts(errClosed)
            \o <<Stmt("wnd.Close", errClosed), Stmt("reply <- nil", NoErr)>>
      [] OTHER -> <<>>

\* the reader runs its next statement of stmts on stream id and goes on as
\* rdEnd after the last one
ReaderStmt(id, stmts, rdEnd) ==
    LET x == stmts[rd.k + 1]
        s2 == StmtStream(st[id], x)
    IN /\ st' = [st EXCEPT ![id] = s2]
       /\ rstreams' = StmtTable(rstreams, id, s2, x)
       /\ tk' \in StmtSignal(tk, id, x)
       /\ rd' = IF rd.k + 1 = Len(stmts) THEN rdEnd
                ELSE [rd EXCEPT !.k = @ + 1, !.cur = id]

\* handleSynReply after s.get: the select that sends the header to st.reply
SynReplySend ==
    LET f == rd.f
    IN IF replySendable(st[f.id])
       THEN /\ st' = [st EXCEPT ![f.id].slot = <<f.h>>]
            /\ rd' = IF f.fin THEN [rd EXCEPT !.pc = "synReplyFin"] ELSE Reading
            /\ hv' = [hv EXCEPT !.finRecv = IF f.fin THEN @ \cup {f.id} ELSE @]
            /\ UNCHANGED <<rstreams, gobag, tk>>
       ELSE /\ GoWriteFrame(RstStreamFrame(f.id, InvalidStream))
            /\ rd' = Reading
            /\ UNCHANGED <<rstreams, st, tk, hv>>

\* Stream.handleWindowUpdate: s.wnd.Inc(delta)
StreamHandleWindowUpdate ==
    LET f == rd.f
        res == SemInc(st[f.id].wnd, ToInt32(f.hi, f.v))
    IN /\ st' = [st EXCEPT ![f.id].wnd = res.s]
       /\ tk' \in SignalWnd(tk, f.id)
       /\ rd' = IF res.err # NoErr
                THEN [rd EXCEPT !.pc = "wuReset",
                                !.f = RstStreamFrame(f.id, FlowControlError)]
                ELSE Reading
       /\ hv' = [hv EXCEPT !.badWu = IF WuBad(f) THEN @ \cup {f.id} ELSE @,
                           !.stacked = IF WuStacked(f) THEN @ \cup {f.id} ELSE @]
       /\ UNCHANGED <<rstreams, gobag>>

\* Stream.handleData: if s.rclosed { go s.sess.reset(s.id, StreamAlreadyClosed) }
StreamHandleDataCheck ==
    LET f == rd.f
    IN IF readerClosed(st[f.id])
       THEN /\ GoWriteFrame(RstStreamFrame(f.id, StreamAlreadyClosed))
            /\ rd' = Reading
            /\ UNCHANGED <<rstreams, st, tk, hv>>
       ELSE /\ rd' = [rd EXCEPT !.pc = "dataWrite"]
            /\ UNCHANGED <<rstreams, st, gobag, tk, hv>>

\* Stream.handleData: s.pipe.Write(p)
StreamHandleDataWrite ==
    LET f == rd.f
        res == PipeWrite(st[f.id].pipe, f.v, defaultInitWnd)
    IN /\ st' = [st EXCEPT ![f.id].pipe = res.p]
       /\ tk' \in SignalPipe(tk, f.id)
       /\ rd' = IF res.err # NoErr
                THEN [rd EXCEPT !.pc = "dataFail",
                                !.f = RstStreamFrame(f.id, FlowControlError)]
                ELSE IF f.fin THEN [rd EXCEPT !.pc = "dataFin"]
                ELSE Reading
       /\ hv' = [hv EXCEPT !.finRecv = IF f.fin THEN @ \cup {f.id} ELSE @]
       /\ UNCHANGED <<rstreams, gobag>>

\* the reader's steps inside handleSynReply, Stream.handleWindowUpdate and
\* Stream.handleData, after the stream was looked up
ReaderStep ==
    /\ rd.pc \in {"synReply", "synReplyFin", "wuInc", "dataCheck", "dataWrite",
                  "dataFin", "dataFail"}
    /\ CASE rd.pc = "synReply" -> SynReplySend
         [] rd.pc = "wuInc" -> StreamHandleWindowUpdate
         [] rd.pc = "dataCheck" -> StreamHandleDataCheck
         [] rd.pc = "dataWrite" -> StreamHandleDataWrite
         [] rd.pc \in {"synReplyFin", "dataFin"} ->
               \* st.rclose(io.EOF)
               /\ ReaderStmt(rd.f.id, ReaderStmts, Reading)
               /\ UNCHANGED <<gobag, hv>>
         [] rd.pc = "dataFail" ->
               \* s.wnd.Close(errFlowControl); s.rclose(errFlowControl)
               /\ ReaderStmt(rd.f.id, ReaderStmts,
                             [rd EXCEPT !.pc = "reset", !.k = 0, !.cur = 0])
               /\ UNCHANGED <<gobag, hv>>
    /\ UNCHANGED <<isServer, nextSynId, lastRecvId, initwnd, closing, err, done,
                   openMu, wire, wbroken, nRead, launched, known, ret>>
    /\ UNCHANGED <<nCall, resp>>

\* a reader goroutine that gives up the session when it has reset a stream
ReaderReset_Fatal ==
    /\ rd.pc = "reset"
    /\ CanWrite
    /\ wire' = Written(rd.f)
    /\ closing' = TRUE
    /\ rd' = [rd EXCEPT !.pc = "teardown", !.snap = rstreams]
    /\ UNCHANGED <<isServer, nextSynId, lastRecvId, initwnd, rstreams, err,
                   done, openMu, st, wbroken, nRead, gobag, launched, known,
                   tk, ret, hv, nCall, resp>>

\* Stream.handleData, after the pipe overflowed: s.sess.reset(s.id, FlowControlError)
ReaderReset ==
    /\ rd.pc = "reset"
    /\ CanWrite
    /\ wire' = Written(rd.f)
    /\ rd' = Reading
    /\ UNCHANGED <<isServer, nextSynId, lastRecvId, initwnd, closing, rstreams, err,
                   done, openMu, st, wbroken, nRead, gobag, launched, known,
                   tk, ret, hv>>
    /\ UNCHANGED <<nCall, resp>>

\* Stream.handleWindowUpdate, after Inc failed: s.sess.reset(s.id, FlowControlError)
ReaderWuReset ==
    /\ rd.pc = "wuReset"
    /\ CanWrite
    /\ wire' = Written(rd.f)
    /\ rd' = [rd EXCEPT !.pc = "wuClose"]
    /\ UNCHANGED <<isServer, nextSynId, lastRecvId, initwnd, closing, rstreams, err,
                   done, openMu, st, wbroken, nRead, gobag, launched, known,
                   tk, ret, hv>>
    /\ UNCHANGED <<nCall, resp>>

\* ... then s.wnd.Close(errFlowControl); s.rclose(errFlowControl), one
\* statement at a time
ReaderWuClose ==
    /\ rd.pc = "wuClose"
    /\ ReaderStmt(rd.f.id, ReaderStmts, Reading)
    /\ UNCHANGED <<isServer, nextSynId, lastRecvId, initwnd, closing, err, done,
                   openMu, wire, wbroken, nRead, gobag, launched, known,
                   ret, hv>>
    /\ UNCHANGED <<nCall, resp>>

\* ReadFrame fails with e: s.err = err, and the deferred teardown sets closing
\* and snapshots the stream table
ReadFail(e) ==
    /\ rd.pc = "read"
    /\ err' = e
    /\ closing' = TRUE
    /\ rd' = [rd EXCEPT !.pc = "teardown", !.snap = rstreams]
    /\ UNCHANGED <<isServer, nextSynId, lastRecvId, initwnd, rstreams, done, openMu,
                   st, wire, wbroken, nRead, gobag, launched, known, tk,
                   ret, hv>>
    /\ UNCHANGED <<nCall, resp>>

\* one round of teardown's loop, one statement at a time: st.rclose(errClosed);
\* st.wnd.Close(errClosed); select { case st.reply <- nil: default: }
TeardownStream(id) ==
    /\ rd.pc = "teardown"
    /\ id \in rd.snap
    /\ rd.k = 0 \/ rd.cur = id
    /\ ReaderStmt(id, ReaderStmts,
                  [rd EXCEPT !.snap = @ \ {id}, !.k = 0, !.cur = 0])
    /\ UNCHANGED <<isServer, nextSynId, lastRecvId, initwnd, closing, err, done,
                   openMu, wire, wbroken, nRead, gobag, launched, known,
                   ret, hv>>
    /\ UNCHANGED <<nCall, resp>>

\* defer close(s.done)
TeardownDone ==
    /\ rd.pc = "teardown"
    /\ rd.snap = {}
    /\ done' = TRUE
    /\ rd' = [rd EXCEPT !.pc = "done"]
    /\ UNCHANGED <<isServer, nextSynId, lastRecvId, initwnd, closing, rstreams, err,
                   openMu, st, wire, wbroken, nRead, gobag, launched, known,
                   tk, ret, hv>>
    /\ UNCHANGED <<nCall, resp>>

(***************************************************************************)
(* The goroutines started by "go s.reset(...)" and "go s.writeFrame(f)".   *)
(***************************************************************************)
GoWrite(f) ==
    /\ BagIn(f, gobag)
    /\ CanWrite
    /\ wire' = Written(f)
    /\ gobag' = gobag (-) SetToBag({f})
    /\ UNCHANGED <<isServer, nextSynId, lastRecvId, initwnd, closing, rstreams, err,
                   done, openMu, st, wbroken, nRead, rd, launched, known,
                   tk, ret, hv>>
    /\ UNCHANGED <<nCall, resp>>

(***************************************************************************)
(* The framer's writer.  Session.writeFrame returns what this WriteFrame   *)
(* returns and keeps no error, so a WriteFrame that fails can be followed  *)
(* by one that works: the writer starts to fail and recovers at any time.  *)
(***************************************************************************)
\* WriteFrame returns an error from now on, until the writer recovers
BreakWriter ==
    /\ ~wbroken
    /\ wbroken' = TRUE
    /\ hv' = [hv EXCEPT !.wfailed = TRUE]
    /\ UNCHANGED <<isServer, nextSynId, lastRecvId, initwnd, closing, rstreams, err,
                   done, openMu, st, wire, nRead, rd, gobag, launched, known,
                   tk, ret>>
    /\ UNCHANGED <<nCall, resp>>

\* WriteFrame works again
MendWriter ==
    /\ wbroken
    /\ wbroken' = FALSE
    /\ UNCHANGED <<isServer, nextSynId, lastRecvId, initwnd, closing, rstreams, err,
                   done, openMu, st, wire, nRead, rd, gobag, launched, known,
                   tk, ret, hv>>
    /\ UNCHANGED <<nCall, resp>>

\* the framer's WriteFrame has returned no error so far
WriterWorked == ~hv.wfailed

(***************************************************************************)
(* Start(fr, server, handle)                                               *)
(***************************************************************************)
Init ==
    /\ isServer \in BOOLEAN
    /\ nextSynId = IF isServer THEN 2 ELSE 1
    /\ lastRecvId = 0
    /\ initwnd = defaultInitWnd
    /\ closing = FALSE
    /\ rstreams = {}
    /\ err = NoErr
    /\ done = FALSE
    /\ openMu = NoTask
    /\ st = [i \in Ids |-> NoStream]
    /\ wire = <<>>
    /\ wbroken = FALSE
    /\ nRead = 0
    /\ rd = Reading
    /\ gobag = EmptyBag
    /\ launched = [i \in Ids |-> 0]
    /\ known = {}
    /\ tk = [t \in Tasks |-> Idle]
    /\ ret = [t \in Tasks |-> NoRet]
    /\ hv = [replyOverlap |-> {}, early |-> {}, finRecv |-> {}, badWu |-> {},
             stacked |-> {}, wfailed |-> FALSE]
    /\ nCall = 0
    /\ resp = [t \in Tasks |-> NoResp]

\* Start(fr, true, handle) and Start(fr, false, handle)
InitServer == Init /\ isServer
InitClient == Init /\ ~isServer

(***************************************************************************)
(* Concurrent opens: every user goroutine opens streams while the remote   *)
(* endpoint pings (each echo is one more writer on the framer) and the     *)
(* framer's writer may fail and recover.                                   *)
(***************************************************************************)
OpenFrames == {PingFrame(1)}

NextOpen ==
    \/ \E t \in Tasks, fin \in BOOLEAN : OpenCall(t, fin, fin)
    \/ \E t \in Tasks : OpenAdd(t)
    \/ \E t \in Tasks : OpenFlags(t)
    \/ \E t \in Tasks : OpenWrite(t)
    \/ \E f \in OpenFrames : ReadFrame(f)
    \/ \E f \in DOMAIN gobag : GoWrite(f)
    \/ BreakWriter
    \/ MendWriter

SpecOpen == Init /\ [][NextOpen]_vars

IsSynStream(i) == wire[i].t = "SYN_STREAM"

\* C1: the SYN_STREAM frames written to the framer carry strictly increasing
\* stream ids, each of the local parity (odd for a client session, even for a
\* server session), however the Open calls of the user goroutines interleave.
C1_SynStreamOrder ==
    /\ \A i, j \in 1 .. Len(wire) :
          i < j /\ IsSynStream(i) /\ IsSynStream(j) => wire[i].id < wire[j].id
    /\ \A i \in 1 .. Len(wire) :
          IsSynStream(i) => ((wire[i].id % 2 = 0) <=> isServer)

\* one Open is about to write its SYN_STREAM, another waits for openMu, and an
\* earlier SYN_STREAM is on the wire
C1_Witness ==
    /\ \E t, u \in Tasks : tk[t].pc = "openWrite" /\ tk[u].pc = "openLock"
    /\ \E i \in 1 .. Len(wire) : IsSynStream(i)

(***************************************************************************)
(* Accepting streams: the remote endpoint sends SYN_STREAM frames with any *)
(* id and flags; the resets of the rejected ones are written concurrently. *)
(***************************************************************************)
AcceptFrames ==
    {SynStreamFrame(id, h, fin, uni) :
        id \in 0 .. MaxId, h \in Hdrs, fin \in BOOLEAN, uni \in BOOLEAN}

NextAccept ==
    \/ \E f \in AcceptFrames : ReadFrame(f)
    \/ \E f \in DOMAIN gobag : GoWrite(f)

SpecAccept == Init /\ [][NextAccept]_vars

\* the id has the remote endpoint's parity and is above every accepted id
SynStreamValid(f) ==
    /\ (f.id % 2 = 1) <=> isServer
    /\ f.id > lastRecvId

\* C4: a SYN_STREAM is accepted (lastRecvId becomes its id, a stream is created
\* and registered, the handler is launched, for the first and only time for
\* that id) only if its id has the remote parity and is above lastRecvId; any
\* other SYN_STREAM starts an RST_STREAM ProtocolError and changes neither
\* lastRecvId nor the stream table nor any stream, and launches no handler.
\* (A stream accepted with both FIN and UNIDIRECTIONAL is closed in both
\* directions at once, so it has left the table again when the handler starts.)
C4_SynStreamAccept ==
    [][\A f \in AcceptFrames : ReadFrame(f) =>
          IF SynStreamValid(f)
          THEN /\ lastRecvId' = f.id
               /\ ~st[f.id].made /\ st'[f.id].made
               /\ (f.id \in rstreams') <=> ~(f.fin /\ f.uni)
               /\ launched[f.id] = 0
               /\ launched' = [launched EXCEPT ![f.id] = 1]
               /\ gobag' = gobag
          ELSE /\ gobag' = gobag (+) SetToBag({RstStreamFrame(f.id, ProtocolError)})
               /\ UNCHANGED <<lastRecvId, rstreams, st, launched, known>>]_vars

\* a stream was accepted, and a later SYN_STREAM was rejected
C4_Witness ==
    /\ \E id \in Ids : launched[id] = 1
    /\ \E id \in 0 .. MaxId : BagIn(RstStreamFrame(id, ProtocolError), gobag)

(***************************************************************************)
(* Replying: the remote endpoint opens streams; two goroutines call Reply, *)
(* Write and Close on them, in sequence or at the same time.               *)
(***************************************************************************)
ReplyFrames == {SynStreamFrame(id, h, FALSE, FALSE) : id \in 1 .. 2, h \in Hdrs}

NextReply ==
    \/ \E f \in ReplyFrames : ~synStreamRejected(f) /\ ReadFrame(f)
    \/ \E t \in Tasks, id \in Ids, fin \in BOOLEAN : ReplyCall(t, id, fin)
    \/ \E t \in Tasks : ReplySet(t)
    \/ \E t \in Tasks : ReplyWrite(t)
    \/ \E t \in Tasks : ReplyClose(t)
    \/ \E t \in Tasks, id \in Ids : WriteCall(t, id, 1)
    \/ \E t \in Tasks : WriteDec(t)
    \/ \E t \in Tasks : WriteData(t)
    \/ \E t \in Tasks, id \in Ids : CloseCall(t, id)
    \/ \E t \in Tasks : CloseWrite(t)
    \/ \E t \in Tasks : CloseWclose(t)
    \/ BreakWriter
    \/ MendWriter
    \/ \E t \in Tasks : WriteReady(t)
    \/ \E t \in Tasks : CloseReady(t)

SpecReply == Init /\ [][NextReply]_vars

\* the positions of the frames of type ty for stream id on the wire
WirePos(ty, id) == {i \in 1 .. Len(wire) : wire[i].t = ty /\ wire[i].id = id}

\* C2 as stated: at most one SYN_REPLY is written per stream, however the
\* Reply calls are interleaved
C2_AtMostOneReply ==
    \A id \in Ids : Cardinality(WirePos("SYN_REPLY", id)) <= 1

\* C2 (amended): at most one SYN_REPLY is written for a stream whose Reply
\* calls never overlap in time; a later Reply returns errCannotReply
C2_AtMostOneReplySequential ==
    \A id \in Ids \ hv.replyOverlap :
        /\ Cardinality(WirePos("SYN_REPLY", id)) <= 1
        /\ \A t \in Tasks :
              /\ tk[t].pc = "idle"
              /\ ret[t].op = "Reply" /\ ret[t].id = id
              /\ ret[t].err = NoErr
              => WirePos("SYN_REPLY", id) # {}

C2_Witness ==
    \E id \in Ids \ hv.replyOverlap, t \in Tasks :
        /\ Cardinality(WirePos("SYN_REPLY", id)) = 1
        /\ ret[t] = Ret("Reply", id, 0, errCannotReply, NilHeader)

\* every DATA frame of stream id on the wire follows a SYN_REPLY of the stream
DataAfterReply(id) ==
    \A i \in WirePos("DATA", id) : \E j \in WirePos("SYN_REPLY", id) : j < i

\* C3: on an accepted stream no DATA frame is written before the SYN_REPLY.
\* The claim is taken here for the streams on which no Write or Close has
\* overlapped a Reply, so that a run against it has DATA before SYN_REPLY
\* with the calls made one after the other: Reply sets s.wready before its
\* WriteFrame and leaves it set when the WriteFrame fails, and the Write or
\* Close that follows passes the test of s.wready
C3_NoDataBeforeReply ==
    \A id \in Ids \ hv.early : launched[id] >= 1 => DataAfterReply(id)

(***************************************************************************)
(* Receiving data: the remote endpoint opens streams and sends DATA and    *)
(* RST_STREAM frames on them while a handler reads.                        *)
(***************************************************************************)
DataLens == {0, 1, defaultInitWnd}
ReadSizes == {1, defaultInitWnd}

DataFrames ==
    {SynStreamFrame(id, h, fin, uni) :
        id \in 1 .. 2, h \in Hdrs, fin \in BOOLEAN, uni \in BOOLEAN}
    \cup {DataFrame(id, len, fin) : id \in 1 .. 2, len \in DataLens, fin \in BOOLEAN}
    \cup {RstStreamFrame(id, RefusedStream) : id \in 1 .. 2}

NextData ==
    \/ \E f \in DataFrames :
          /\ f.t = "SYN_STREAM" => ~synStreamRejected(f)
          /\ ReadFrame(f)
    \/ ReaderReset
    \/ \E f \in DOMAIN gobag : GoWrite(f)
    \/ \E id \in Ids, size \in ReadSizes : ReadCall("t1", id, size)
    \/ ReadPipe("t1")
    \/ ReadUpdateWindow("t1")
    \/ ReaderStep

SpecData == Init /\ [][NextData]_vars

\* C5 as stated: an RST_STREAM from the peer for a live stream removes the
\* stream from the table and closes both directions with resetError(status),
\* so that no Read or Write stays blocked on it
C5_RstStreamResets ==
    [][\A f \in DataFrames :
          ReadFrame(f) /\ f.t = "RST_STREAM" /\ f.id \in rstreams =>
              /\ f.id \notin rstreams'
              /\ st'[f.id].pipe.err = resetError(f.status)
              /\ st'[f.id].wnd.closed
              /\ \A t \in Tasks :
                    tk[t].id = f.id => tk'[t].pc \notin {"readWait", "decWait"}]_vars

\* the DATA frame reaches the pipe of a stream whose reader is open
DataReachesPipe(f) ==
    f.t = "DATA" /\ f.id \in rstreams /\ ~st[f.id].rclosed

\* the unread bytes of stream id's receive pipe
Unread(id) == BufLen(st[id].pipe.b)

\* the reader goroutine is at the rclosed test / at the pipe.Write of
\* Stream.handleData for frame f
AtDataCheck(f) == rd.pc = "dataCheck" /\ rd.f = f
AtDataWrite(f) == rd.pc = "dataWrite" /\ rd.f = f

\* Session.handleData found the stream of f and calls st.handleData
DataLookedUp(f) ==
    /\ rd' = [rd EXCEPT !.pc = "dataCheck", !.f = f]
    /\ UNCHANGED <<st, gobag>>

\* the RST_STREAM that handleData starts for a DATA frame it does not deliver
DataRefused(f, status) ==
    /\ st'[f.id].pipe = st[f.id].pipe
    /\ gobag' = gobag (+) SetToBag({RstStreamFrame(f.id, status)})
    /\ rd' = Reading

\* C8 as stated: a DATA frame that arrives after the remote endpoint set
\* FLAG_FIN on the stream reaches the rclosed test of Stream.handleData, is
\* not delivered and starts RST_STREAM StreamAlreadyClosed
C8_DataAfterFin ==
    [][\A f \in DataFrames :
          f.t = "DATA" /\ f.id \in hv.finRecv =>
              /\ ReadFrame(f) => DataLookedUp(f)
              /\ ReaderStep /\ AtDataCheck(f) =>
                    DataRefused(f, StreamAlreadyClosed)]_vars

\* C8 (amended): a DATA frame that arrives after an accepted FLAG_FIN of the
\* remote endpoint is not delivered; when the stream is in the table it comes
\* to the rclosed test and starts RST_STREAM StreamAlreadyClosed there, and it
\* starts InvalidStream once the stream has been removed because the local
\* direction is closed too
C8_DataAfterFinByTable ==
    [][\A f \in DataFrames :
          f.t = "DATA" /\ f.id \in hv.finRecv =>
              /\ ReadFrame(f) =>
                    IF f.id \in rstreams
                    THEN DataLookedUp(f)
                    ELSE DataRefused(f, InvalidStream)
              /\ ReaderStep /\ AtDataCheck(f) =>
                    DataRefused(f, StreamAlreadyClosed)]_vars

C8_Witness ==
    \E id \in hv.finRecv :
        /\ id \in rstreams
        /\ Unread(id) = 1
        /\ \E i \in 1 .. Len(wire) : wire[i] = RstStreamFrame(id, StreamAlreadyClosed)

\* C9: a receive pipe never holds more than 64 KiB of unread bytes; a DATA frame
\* that does not fit into what is free makes the reader goroutine close the
\* stream's send window and reader with errFlowControl (the window keeps an
\* earlier close) and then write RST_STREAM FlowControlError itself; a DATA
\* frame that fits is delivered whole
C9_PipeCapacity ==
    /\ [](\A id \in Ids : Unread(id) <= defaultInitWnd)
    /\ [](rd.pc = "reset" =>
             /\ rd.f = RstStreamFrame(rd.f.id, FlowControlError)
             /\ st[rd.f.id].rclosed
             /\ st[rd.f.id].pipe.b.closed
             /\ st[rd.f.id].pipe.err = errFlowControl
             /\ st[rd.f.id].wnd.closed)
    /\ [][/\ \A f \in DataFrames :
               ReaderStep /\ AtDataWrite(f) =>
                   IF f.v > defaultInitWnd - Unread(f.id)
                   THEN /\ rd'.pc = "dataFail"
                        /\ rd'.f = RstStreamFrame(f.id, FlowControlError)
                   ELSE /\ rd'.pc = IF f.fin THEN "dataFin" ELSE "read"
                        /\ Unread(f.id)' = Unread(f.id) + f.v
                        /\ st'[f.id].wnd = st[f.id].wnd
                        /\ ~st'[f.id].rclosed
          /\ ReaderStep /\ rd.pc = "dataFail" /\ rd.k = 0 =>
                /\ st'[rd.f.id].wnd.closed
                /\ ~st[rd.f.id].wnd.closed => st'[rd.f.id].wnd.err = errFlowControl
          /\ rd.pc = "dataFail" /\ rd'.pc # "dataFail" => rd'.pc = "reset" /\ rd'.f = rd.f
          /\ ReaderReset => wire' = Append(wire, rd.f)]_vars

C9_Witness ==
    \E id \in Ids :
        /\ \E i \in 1 .. Len(wire) : wire[i] = RstStreamFrame(id, FlowControlError)
        /\ Unread(id) = defaultInitWnd
        /\ st[id].pipe.err = errFlowControl
        /\ st[id].wnd.err = errFlowControl

(***************************************************************************)
(* The send window: the remote endpoint opens streams and sends DATA and   *)
(* WINDOW_UPDATE frames, with and without FLAG_FIN on the SYN_STREAM and   *)
(* DATA frames, and no WINDOW_UPDATE for a stream after a bad one; one     *)
(* goroutine replies and writes, another reads.                            *)
(***************************************************************************)
WndDeltas == {<<0, 0>>, <<0, 1>>, <<0, MaxInt32>>, <<1, 1>>}
WriteSizes == {defaultInitWnd + 1}

WndFrames ==
    {SynStreamFrame(id, h, fin, FALSE) : id \in 1 .. 2, h \in Hdrs, fin \in BOOLEAN}
    \cup {DataFrame(1, 2, fin) : fin \in BOOLEAN}
    \cup {WindowUpdateFrame(id, d[1], d[2]) : id \in 1 .. 2, d \in WndDeltas}

NextWnd ==
    \/ \E f \in WndFrames :
          /\ f.t = "SYN_STREAM" => ~synStreamRejected(f)
          /\ f.t = "DATA" => DataReachesPipe(f)
          /\ f.t = "WINDOW_UPDATE" => f.id \in rstreams /\ f.id \notin hv.badWu
          /\ ReadFrame(f)
    \/ ReaderStep
    \/ ReaderWuReset
    \/ ReaderWuClose
    \/ \E id \in Ids, fin \in BOOLEAN : ret["t1"].op = "" /\ ReplyCall("t1", id, fin)
    \/ ReplySet("t1")
    \/ ReplyWrite("t1")
    \/ ReplyClose("t1")
    \/ \E id \in Ids, size \in WriteSizes : WriteCall("t1", id, size)
    \/ WriteReady("t1")
    \/ WriteCheck("t1")
    \/ WriteDec("t1")
    \/ WriteData("t1")
    \/ WriteReset("t1")
    \/ WriteResetClose("t1")
    \/ \E id \in Ids : ReadCall("t2", id, 1)
    \/ ReadPipe("t2")
    \/ ReadUpdateWindow("t2")

SpecWnd == InitServer /\ [][NextWnd]_vars

\* the reader goroutine has finished handling a bad WINDOW_UPDATE of stream id
WuHandled(id) ==
    /\ id \in hv.badWu
    /\ ~(rd.pc \in {"wuReset", "wuClose"} /\ rd.f.id = id)

\* RST_STREAM with FlowControlError for stream id is on the wire
WuResetWritten(id) ==
    \E i \in 1 .. Len(wire) : wire[i] = RstStreamFrame(id, FlowControlError)

\* the errors the reader of a stream can be found closed with after a bad
\* WINDOW_UPDATE: errFlowControl, or the error of an earlier close, which
\* pipe.Close keeps: io.EOF of the peer's FLAG_FIN, or the error of the
\* Reset(InternalError) of a Write that failed at the closed window and closed
\* the reader first
WuReadErrs(id) ==
    {errFlowControl}
    \cup (IF id \in hv.finRecv THEN {errEOF} ELSE {})
    \cup (IF \E i \in 1 .. Len(wire) : wire[i] = RstStreamFrame(id, InternalError)
          THEN {resetError(InternalError)} ELSE {})

\* as the claim states it: after a bad WINDOW_UPDATE the RST_STREAM is written
\* and the send window and the reader are closed with errFlowControl; no
\* window of a stream in the table is above 2^31-1
WuStatesStated ==
    /\ \A id \in Ids :
          WuHandled(id) =>
              /\ WuResetWritten(id)
              /\ st[id].rclosed
              /\ st[id].pipe.b.closed /\ st[id].pipe.err = errFlowControl
              /\ st[id].wnd.closed /\ st[id].wnd.err = errFlowControl
    /\ \A id \in rstreams : st[id].wnd.n <= MaxInt32

\* as the code does it: after a bad WINDOW_UPDATE the RST_STREAM is written
\* and the send window and the reader are closed; each has errFlowControl or
\* the error of its earlier close, which for the window is errClosed of a
\* writer closed before (Reply with FLAG_FIN); no window of a stream in the
\* table is above 2^31-1
WuStates ==
    /\ \A id \in Ids :
          WuHandled(id) =>
              /\ WuResetWritten(id)
              /\ st[id].rclosed
              /\ st[id].pipe.b.closed /\ st[id].pipe.err \in WuReadErrs(id)
              /\ st[id].wnd.closed
              /\ \/ st[id].wnd.err = errFlowControl
                 \/ st[id].wclosed /\ st[id].wnd.err = errClosed
    /\ \A id \in rstreams : st[id].wnd.n <= MaxInt32

\* s.wnd.Close(errFlowControl) and s.pipe.Close(errFlowControl) after the bad
\* WINDOW_UPDATE: errFlowControl for what was open, the first error for what
\* was closed
WuCloseStep ==
    ReaderWuClose =>
        LET id == rd.f.id
            x == ReaderStmts[rd.k + 1]
        IN /\ x.op = "wnd.Close" =>
                 /\ st'[id].wnd.closed
                 /\ st'[id].wnd.err = IF st[id].wnd.closed THEN st[id].wnd.err
                                      ELSE errFlowControl
           /\ x.op = "pipe.Close" =>
                 /\ st'[id].pipe.b.closed
                 /\ st'[id].pipe.err = IF st[id].pipe.b.closed THEN st[id].pipe.err
                                       ELSE errFlowControl

\* the Inc of a bad WINDOW_UPDATE makes the reader goroutine reset the stream
\* next; any other adds its delta to the window
WuStep ==
    \A f \in WndFrames :
        /\ ReadFrame(f) /\ f.t = "WINDOW_UPDATE" /\ f.id \in rstreams =>
              rd' = [rd EXCEPT !.pc = "wuInc", !.f = f] /\ st' = st
        /\ ReaderStep /\ rd.pc = "wuInc" /\ rd.f = f =>
              IF WuBad(f)
              THEN /\ rd'.pc = "wuReset"
                   /\ rd'.f = RstStreamFrame(f.id, FlowControlError)
              ELSE /\ rd'.pc = "read"
                   /\ st'[f.id].wnd.n = st[f.id].wnd.n + f.v

\* afterwards a Write that comes to take from the window, woken or new, fails
WuWriteStep ==
    \A t \in Tasks :
        /\ WriteDec(t) /\ WuHandled(tk[t].id) =>
               tk'[t].pc = "wreset" /\ tk'[t].e # NoErr
        /\ WriteResetClose(t) /\ tk'[t].pc = "idle" =>
               ret'[t].op = "Write" /\ ret'[t].err # NoErr

\* the error with which pipe.Read comes back to Stream.Read in this step
ReadErrAfter(t) == IF tk'[t].pc = "updWin" THEN tk'[t].e ELSE ret'[t].err

\* afterwards every Read gets an error
WuReadStepAlways ==
    \A t \in Tasks :
        ReadPipe(t) /\ WuHandled(tk[t].id) /\ tk'[t].pc # "readWait" =>
            ReadErrAfter(t) # NoErr

\* afterwards a Read that takes all the bytes still buffered gets the error the
\* reader was closed with, and a Read that leaves some of them gets no error
WuReadStepDrained ==
    \A t \in Tasks :
        ReadPipe(t) /\ WuHandled(tk[t].id) =>
            /\ tk'[t].pc # "readWait"
            /\ ReadErrAfter(t) = IF tk[t].size >= Unread(tk[t].id)
                                 THEN st[tk[t].id].pipe.err
                                 ELSE NoErr

HeaderFrames ==
    {SynReplyFrame(id, h, fin) : id \in 1 .. 2, h \in Hdrs, fin \in BOOLEAN}

NextHeader ==
    \/ ret["t1"].op = "" /\ OpenCall("t1", FALSE, FALSE)
    \/ OpenAdd("t1")
    \/ OpenFlags("t1")
    \/ OpenWrite("t1")
    \/ \E id \in Ids : HeaderCall("t1", id)
    \/ HeaderRecv("t1")
    \/ HeaderNil("t1")
    \/ \E id \in Ids : ResetCall("t2", id, RefusedStream)
    \/ ResetClose("t2")
    \/ \E f \in HeaderFrames : ReadFrame(f)
    \/ ReaderStep
    \/ \E f \in DOMAIN gobag : GoWrite(f)
    \/ ReadFail(errFramerRead)
    \/ \E id \in Ids : TeardownStream(id)
    \/ TeardownDone

SpecHeader == InitClient /\ [][NextHeader]_vars /\ WF_vars(NextHeader)

\* goroutine t waits in Header for the reply of a stream that is closed in both
\* directions and whose reply slot is empty
HeaderBlockedClosed(t) ==
    /\ tk[t].pc = "hrecv"
    /\ st[tk[t].id].rclosed /\ st[tk[t].id].wclosed
    /\ st[tk[t].id].slot = <<>>

\* C6 as stated: a Header call that waits on a locally opened stream which was
\* reset or closed before a SYN_REPLY arrived returns, and returns nil
C6_HeaderReturnsNil ==
    \A t \in Tasks :
        HeaderBlockedClosed(t) ~>
            (tk[t].pc = "idle" /\ ret[t].op = "Header" /\ ret[t].h = NilHeader)

\* goroutine t is blocked on a reply slot, a receive pipe or a send window
Blocked(t) == tk[t].pc \in {"hrecv", "readWait", "decWait"}

\* C7 as stated: once ReadFrame has failed and teardown has run, every
\* goroutine blocked in Read, Write or Header returns
C7_TeardownUnblocks ==
    done ~> (\A t \in Tasks : ~Blocked(t))

(***************************************************************************)
(* The end of the session: one goroutine opens streams and replies to,     *)
(* closes and resets streams, another reads, asks for the header and waits *)
(* for the session, while the framer's ReadFrame fails at some point.      *)
(***************************************************************************)
EndFrames == {SynStreamFrame(id, h, FALSE, FALSE) : id \in 1 .. 2, h \in Hdrs}
EndErrs == {errEOF, errFramerRead}

NextEnd ==
    \/ \E f \in EndFrames : ~synStreamRejected(f) /\ ReadFrame(f)
    \/ \E e \in EndErrs : ReadFail(e)
    \/ \E id \in Ids : TeardownStream(id)
    \/ TeardownDone
    \/ nextSynId = 2 /\ OpenCall("t1", FALSE, FALSE)
    \/ OpenAdd("t1")
    \/ OpenFlags("t1")
    \/ OpenWrite("t1")
    \/ \E id \in Ids : ReplyCall("t1", id, FALSE)
    \/ ReplySet("t1")
    \/ ReplyWrite("t1")
    \/ \E id \in Ids : CloseCall("t1", id)
    \/ CloseReady("t1")
    \/ CloseWrite("t1")
    \/ CloseWclose("t1")
    \/ \E id \in Ids : ResetCall("t1", id, RefusedStream)
    \/ ResetClose("t1")
    \/ \E id \in Ids : ReadCall("t2", id, 1)
    \/ ReadPipe("t2")
    \/ \E id \in Ids : HeaderCall("t2", id)
    \/ HeaderRecv("t2")
    \/ HeaderNil("t2")
    \/ WaitCall("t2")
    \/ WaitReturn("t2")

SpecEnd == InitServer /\ [][NextEnd]_vars

\* the steps inside the calls of the goroutines and inside the teardown: a
\* goroutine that can run its next statement is scheduled in the end
EndRuns ==
    \/ OpenAdd("t1") \/ OpenFlags("t1") \/ OpenWrite("t1")
    \/ ReplySet("t1") \/ ReplyWrite("t1")
    \/ CloseReady("t1") \/ CloseWrite("t1") \/ CloseWclose("t1")
    \/ ResetClose("t1")
    \/ ReadPipe("t2") \/ HeaderRecv("t2") \/ HeaderNil("t2") \/ WaitReturn("t2")
    \/ \E id \in Ids : TeardownStream(id)
    \/ TeardownDone

SpecEndRuns == SpecEnd /\ WF_vars(EndRuns)

\* C11 as stated: Wait returns nil when ReadFrame reported EOF, and the
\* framer's error for any other read failure
C11_WaitError ==
    \A t \in Tasks :
        ret[t].op = "Wait" =>
            ret[t].err = IF err = errEOF THEN NoErr ELSE err

(***************************************************************************)
(* Violations: the remote endpoint sends frames that break the protocol or *)
(* the flow control of single streams, in between frames that do not, and  *)
(* the framer's ReadFrame fails at some point.                             *)
(***************************************************************************)
ViolationFrames ==
    {SynStreamFrame(id, h, fin, uni) :
        id \in 1 .. 4, h \in Hdrs, fin \in BOOLEAN, uni \in BOOLEAN}
    \cup {SynReplyFrame(id, h, FALSE) : id \in 1 .. 2, h \in Hdrs}
    \cup {DataFrame(id, len, FALSE) : id \in 1 .. 2, len \in {1, defaultInitWnd + 1}}
    \cup {WindowUpdateFrame(id, 0, 0) : id \in 1 .. 2}

NextViolation ==
    \/ \E f \in ViolationFrames : ReadFrame(f)
    \/ ReaderReset
    \/ ReaderWuReset
    \/ ReaderWuClose
    \/ \E f \in DOMAIN gobag : GoWrite(f)
    \/ ReadFail(errFramerRead)
    \/ \E id \in Ids : TeardownStream(id)
    \/ TeardownDone
    \/ ReaderStep

SpecViolation == Init /\ [][NextViolation]_vars

\* frame f, as handleRead takes it from the framer, breaks the protocol
Violation(f) ==
    \/ f.t = "SYN_STREAM" /\ ~SynStreamValid(f)
    \/ f.t \in {"DATA", "SYN_REPLY"} /\ f.id \notin rstreams

\* the frame the reader has looked up the stream of breaks the protocol or
\* the flow control of that stream, at the statement the reader is at
ViolationAt ==
    \/ rd.pc = "synReply" /\ ~st[rd.f.id].reply
    \/ rd.pc = "dataCheck" /\ st[rd.f.id].rclosed
    \/ rd.pc = "dataWrite" /\ rd.f.v > defaultInitWnd - Unread(rd.f.id)
    \/ rd.pc = "wuInc" /\ WuBad(rd.f)

\* the reader goroutine has started the RST_STREAM that answers a frame of
\* stream id
ResetStarted(id) ==
    \/ \E status \in {ProtocolError, InvalidStream, StreamAlreadyClosed} :
          /\ gobag' = gobag (+) SetToBag({RstStreamFrame(id, status)})
          /\ rd' = Reading
    \/ /\ rd'.pc \in {"dataFail", "wuReset"}
       /\ rd'.f = RstStreamFrame(id, FlowControlError)
       /\ gobag' = gobag

\* C12: a frame that violates the protocol or the flow control of one stream
\* is answered with an RST_STREAM and leaves the session running: the reader
\* goroutine comes back to read the next frame; closing and done are set only
\* after ReadFrame has returned an error
C12_ViolationsKeepSession ==
    /\ [](done => closing)
    /\ [](closing \/ rd.pc \in {"teardown", "done"} => err # NoErr)
    /\ [][/\ \A f \in ViolationFrames :
               ReadFrame(f) /\ Violation(f) =>
                   /\ ResetStarted(f.id)
                   /\ ~closing' /\ ~done' /\ err' = NoErr
          /\ ReaderStep /\ ViolationAt =>
                /\ ResetStarted(rd.f.id)
                /\ ~closing' /\ ~done' /\ err' = NoErr
          /\ rd.pc = "dataFail" /\ rd'.pc # rd.pc => rd'.pc = "reset" /\ rd'.f = rd.f
          /\ rd.pc = "wuReset" /\ rd'.pc # rd.pc =>
                /\ rd'.pc = "wuClose" /\ rd'.f = rd.f
                /\ wire' = Append(wire, rd.f)
          /\ rd.pc = "reset" /\ rd'.pc # rd.pc =>
                rd' = Reading /\ wire' = Append(wire, rd.f)
          /\ rd.pc = "wuClose" /\ rd'.pc # rd.pc => rd' = Reading
          /\ rd.pc \in {"dataFail", "reset", "wuReset", "wuClose"} =>
                ~closing' /\ ~done' /\ err' = NoErr
          /\ ~closing /\ closing' => ReadFail(errFramerRead)]_vars

C12_Witness ==
    \E id \in Ids :
        /\ \E i \in 1 .. Len(wire) : wire[i] = RstStreamFrame(id, FlowControlError)
        /\ st[id].pipe.err = errFlowControl
        /\ lastRecvId > id
        /\ launched[lastRecvId] = 1 /\ lastRecvId \in rstreams
        /\ rd.pc = "read" /\ ~closing

(***************************************************************************)
(* Writers: two goroutines open a stream each and write to it, one Write   *)
(* per stream, while the peer grants credit with WINDOW_UPDATE frames.  A  *)
(* Write larger than the window is split into several DATA frames.         *)
(***************************************************************************)
WriterSizes == {1, defaultInitWnd + 1}
WriterFrames == {WindowUpdateFrame(id, 0, 1) : id \in 1 .. 4}

NextWriters ==
    \/ \E f \in WriterFrames : ReadFrame(f)
    \/ \E t \in Tasks : OpenCall(t, FALSE, FALSE)
    \/ \E t \in Tasks : OpenAdd(t)
    \/ \E t \in Tasks : OpenFlags(t)
    \/ \E t \in Tasks : OpenWrite(t)
    \/ \E t \in Tasks, size \in WriterSizes :
          /\ ret[t].op = "Open" /\ ret[t].err = NoErr
          /\ WriteCall(t, ret[t].id, size)
    \/ \E t \in Tasks : WriteCheck(t)
    \/ \E t \in Tasks : WriteDec(t)
    \/ \E t \in Tasks : WriteData(t)
    \/ \E t \in Tasks : WriteReady(t)
    \/ ReaderStep

SpecWriters == Init /\ [][NextWriters]_vars

\* the bytes of stream id framed so far: the lengths of its DATA frames
RECURSIVE DataBytes(_, _)
DataBytes(w, id) ==
    IF w = <<>> THEN 0
    ELSE DataBytes(Tail(w), id)
         + (IF Head(w).t = "DATA" /\ Head(w).id = id THEN Head(w).v ELSE 0)

\* C13 as stated: between the DATA frames of one Write the framer receives
\* no frame of another stream, so a later piece of p directly follows the
\* frame that carries the piece before it
C13_NoFrameBetween ==
    [][\A t \in Tasks :
          WriteData(t) /\ tk[t].sent > 0 /\ ~wbroken =>
              /\ wire[Len(wire)].t = "DATA"
              /\ wire[Len(wire)].id = tk[t].id]_vars

\* C13, weakened to the order within the stream: each writeData hands the
\* framer one DATA frame in one step, which carries the piece of p that
\* starts where the DATA frames of the stream written before end, so that
\* the DATA frames of the stream cover p in order without gap or overlap;
\* frames of other streams may lie between them on the connection
C13_PiecesInOrder ==
    /\ [](\A t \in Tasks :
             /\ tk[t].pc \in WritePcs => DataBytes(wire, tk[t].id) = tk[t].sent
             /\ ret[t].op = "Write" /\ ret[t].err = NoErr =>
                   /\ DataBytes(wire, ret[t].id) = ret[t].n
                   /\ ret[t].n \in WriterSizes)
    /\ [][\A t \in Tasks :
             WriteData(t) =>
                 /\ wire' = Append(wire, DataFrame(tk[t].id, tk[t].n, FALSE))
                 /\ tk[t].n >= 1
                 /\ tk[t].sent + tk[t].n <= tk[t].size]_vars

C13_Witness ==
    \E t \in Tasks :
        /\ ret[t].op = "Write" /\ ret[t].err = NoErr
        /\ ret[t].n = defaultInitWnd + 1
        /\ Len(wire) = 4
        /\ wire[2] = DataFrame(ret[t].id, defaultInitWnd, FALSE)
        /\ wire[3].id # ret[t].id
        /\ wire[4] = DataFrame(ret[t].id, 1, FALSE)

\* C14: the receiver's Reads return the bytes of the sender's Writes, in
\* order, and then EOF.  A receiver learns where the bytes end by reading
\* until Read returns an error (io.Copy, which the echo handler and the tests
\* of the payload sizes use, stops at the first one), so on a stream whose
\* reader nothing but the frame with FLAG_FIN closes every Read returns its
\* bytes without an error, and returns EOF only when the frame with FLAG_FIN
\* has been received and no byte is left unread, the bytes of that frame
\* included.  Stream.Read returns what pipe.Read returns, and pipe.Read what
\* buffer.Read returns, which is "read from empty buffer" with every Read
\* that takes the last unread byte of an open pipe
C14_BytesDelivered ==
    \A t \in Tasks :
        LET r == ret[t]
        IN r.op = "Read" /\ r.id \in Ids /\ st[r.id].pipe.err \in {NoErr, errEOF} =>
               /\ r.err \in {NoErr, errEOF}
               /\ r.err = errEOF => r.id \in hv.finRecv /\ Unread(r.id) = 0

(***************************************************************************)
(* Credit: the peer sets the initial window to 0 or 1 with its first frame *)
(* and then grants credit with WINDOW_UPDATE frames of delta 1, while a    *)
(* goroutine opens a stream and writes 2 or 3 bytes to it.                 *)
(***************************************************************************)
CreditSizes == {2, 3}
CreditFrames ==
    {SettingsFrame(SettingsInitialWindowSize, 0, v) : v \in {0, 1}}
    \cup {WindowUpdateFrame(id, 0, 1) : id \in 1 .. 2}

NextCredit ==
    \/ \E f \in CreditFrames :
          /\ f.t = "SETTINGS" <=> nRead = 0
          /\ ReadFrame(f)
    \/ nRead >= 1 /\ OpenCall("t1", FALSE, FALSE)
    \/ OpenAdd("t1")
    \/ OpenFlags("t1")
    \/ OpenWrite("t1")
    \/ \E size \in CreditSizes :
          /\ ret["t1"].op = "Open" /\ ret["t1"].err = NoErr
          /\ WriteCall("t1", ret["t1"].id, size)
    \/ WriteCheck("t1")
    \/ WriteDec("t1")
    \/ WriteData("t1")
    \/ \E t \in Tasks : WriteReady(t)
    \/ ReaderStep

SpecCredit == Init /\ [][NextCredit]_vars

\* the DATA frames of stream id among the frames w
DataOf(w, id) == SelectSeq(w, LAMBDA f : f.t = "DATA" /\ f.id = id)

\* a Write with an initial window of 0 writes no DATA frame and leaves its
\* wait only in the step that runs the Inc of a WINDOW_UPDATE with a positive
\* delta for its stream; a Dec at an empty window waits and writes nothing
CreditWaits ==
    /\ [](initwnd = 0 /\ nRead = 1 => \A id \in Ids : DataOf(wire, id) = <<>>)
    /\ [][\A t \in Tasks :
             /\ WriteDec(t) /\ st[tk[t].id].wnd.n < 1 =>
                   tk'[t].pc = "decWait" /\ wire' = wire
             /\ tk[t].pc = "decWait" /\ tk'[t].pc # "decWait" =>
                   /\ ReaderStep /\ rd.pc = "wuInc"
                   /\ rd.f \in CreditFrames /\ rd.f.id = tk[t].id /\ rd.f.v >= 1
                   /\ tk'[t].pc = "dec"
                   /\ st'[tk[t].id].wnd.n >= 1]_vars

\* C15 as stated: with an initial window of 1 every DATA frame of a Write
\* carries one byte, so that Write returns after as many frames as it has
\* bytes; with an initial window of 0 Write waits for a WINDOW_UPDATE
C15_OneFramePerCredit ==
    /\ [](\A t \in Tasks :
             ret[t].op = "Write" /\ ret[t].err = NoErr =>
                 /\ DataBytes(wire, ret[t].id) = ret[t].n
                 /\ \A i \in 1 .. Len(DataOf(wire, ret[t].id)) :
                       DataOf(wire, ret[t].id)[i].v = 1)
    /\ CreditWaits

\* C15 for credit that is spent before more arrives: if every
\* WINDOW_UPDATE(1) of the stream arrives at an empty send window, every
\* DATA frame of a Write carries one byte, there is at most one DATA frame
\* more than WINDOW_UPDATEs read, and Write returns after as many frames as
\* it has bytes; with an initial window of 0 Write waits for a WINDOW_UPDATE
C15_OneFramePerSpentCredit ==
    /\ [](\A id \in Ids \ hv.stacked :
             /\ \A i \in 1 .. Len(DataOf(wire, id)) : DataOf(wire, id)[i].v = 1
             /\ Len(DataOf(wire, id)) <= initwnd + nRead - 1)
    /\ [](\A t \in Tasks :
             ret[t].op = "Write" /\ ret[t].err = NoErr =>
                 /\ DataBytes(wire, ret[t].id) = ret[t].n
                 /\ ret[t].n \in CreditSizes)
    /\ CreditWaits

C15_Witness ==
    /\ ret["t1"].op = "Write" /\ ret["t1"].err = NoErr /\ ret["t1"].n = 3
    /\ ret["t1"].id \notin hv.stacked
    /\ initwnd = 1
    /\ Len(DataOf(wire, ret["t1"].id)) = 3

\* k statements of stmts done, a goroutine is inside an rclose or a wclose:
\* it has written the flag and has not yet come back from maybeRemove
InClose(stmts, k) ==
    /\ k \in 1 .. Len(stmts) - 1
    /\ \E i \in 1 .. k :
          /\ stmts[i].op \in {"rclosed", "wclosed"}
          /\ \A j \in i .. k : stmts[j].op # "maybeRemove"

\* an rclose or a wclose of stream id is in progress
CloseInProgress(id) ==
    \/ \E t \in Tasks : tk[t].id = id /\ InClose(TaskStmts(t), tk[t].k)
    \/ /\ InClose(ReaderStmts, rd.k)
       /\ id = IF rd.pc = "teardown" THEN rd.cur ELSE rd.f.id

\* C16: in every state where no rclose or wclose of a stream is in progress,
\* the stream, once added to the table, is in the table if and only if it is
\* not closed in both directions
C16_TableMembership ==
    \A id \in Ids :
        st[id].made /\ ~CloseInProgress(id) =>
            (id \in rstreams <=> ~(st[id].rclosed /\ st[id].wclosed))

\* one stream closed in both directions and gone, one closed in one
\* direction and still in the table, with no close of either in progress
C16_Witness ==
    \E id, id2 \in Ids :
        /\ st[id].made /\ st[id].rclosed /\ st[id].wclosed /\ id \notin rstreams
        /\ ~CloseInProgress(id)
        /\ st[id2].made /\ st[id2].rclosed /\ ~st[id2].wclosed /\ id2 \in rstreams
        /\ ~CloseInProgress(id2)

(***************************************************************************)
(* Unidirectional: a goroutine opens a unidirectional stream, writes three *)
(* bytes and closes it, as TestSessionUnidirectional does, while a second  *)
(* goroutine calls Header and Read on the stream and the peer sends PING   *)
(* and WINDOW_UPDATE frames.                                               *)
(***************************************************************************)
UniSize == 3
UniFrames ==
    {PingFrame(id) : id \in 1 .. 2}
    \cup {WindowUpdateFrame(id, 0, 1) : id \in 1 .. 2}

NextUni ==
    \/ \E f \in UniFrames : ReadFrame(f)
    \/ \E f \in DOMAIN gobag : GoWrite(f)
    \/ ret["t1"].op = "" /\ OpenCall("t1", FALSE, TRUE)
    \/ OpenAdd("t1")
    \/ OpenFlags("t1")
    \/ OpenWrite("t1")
    \/ /\ ret["t1"].op = "Open" /\ ret["t1"].err = NoErr
       /\ WriteCall("t1", ret["t1"].id, UniSize)
    \/ WriteDec("t1")
    \/ WriteData("t1")
    \/ /\ ret["t1"].op = "Write" /\ ret["t1"].err = NoErr
       /\ CloseCall("t1", ret["t1"].id)
    \/ CloseWrite("t1")
    \/ CloseWclose("t1")
    \/ \E id \in Ids : HeaderCall("t2", id)
    \/ \E id \in Ids : ReadCall("t2", id, 1)
    \/ ReadPipe("t2")
    \/ \E t \in Tasks : WriteReady(t)
    \/ \E t \in Tasks : CloseReady(t)
    \/ ReaderStep

SpecUni == Init /\ [][NextUni]_vars

\* the frames of stream id among the frames w
StreamFrames(w, id) ==
    SelectSeq(w, LAMBDA f : f.t \notin {"PING", "SETTINGS"} /\ f.id = id)

\* what Open(UNIDIRECTIONAL), Write(p), Close() write for stream id
UniWritten(id) ==
    <<SynStreamFrame(id, SentHeader, FALSE, TRUE),
      DataFrame(id, UniSize, FALSE),
      DataFrame(id, 0, TRUE)>>

\* C17: the frames of a unidirectional stream are at any time the first
\* ones of SYN_STREAM with the UNIDIRECTIONAL flag, DATA p, empty DATA with
\* FIN, one after each of Open, Write and Close, and all three once Close
\* has returned; Header returns nil and Read returns errNotReadable, and
\* neither waits
C17_Unidirectional ==
    /\ \A id \in Ids :
          LET fs == StreamFrames(wire, id)
          IN /\ Len(fs) <= 3
             /\ fs = SubSeq(UniWritten(id), 1, Len(fs))
    /\ LET r == ret["t1"]
       IN /\ r.op \in {"Open", "Write", "Close"} => r.err = NoErr
          /\ r.op = "Open" => Len(StreamFrames(wire, r.id)) = 1
          /\ r.op = "Write" => Len(StreamFrames(wire, r.id)) = 2 /\ r.n = UniSize
          /\ r.op = "Close" => StreamFrames(wire, r.id) = UniWritten(r.id)
    /\ tk["t2"].pc \notin {"hrecv", "hnil", "readWait"}
    /\ ret["t2"].op = "Header" => ret["t2"].h = NilHeader
    /\ ret["t2"].op = "Read" => ret["t2"].n = 0 /\ ret["t2"].err = errNotReadable

C17_Witness ==
    /\ ret["t1"].op = "Close" /\ ret["t1"].err = NoErr
    /\ StreamFrames(wire, ret["t1"].id) = UniWritten(ret["t1"].id)
    /\ ret["t2"].op = "Read" /\ ret["t2"].err = errNotReadable
    /\ ret["t2"].id = ret["t1"].id

(***************************************************************************)
(* Misuse: one goroutine calls the stream operations in any order on the   *)
(* streams it opened and on the streams the peer opened, which may carry   *)
(* data.                                                                   *)
(***************************************************************************)
MisuseFrames ==
    {SynStreamFrame(id, h, FALSE, FALSE) : id \in 1 .. 2, h \in Hdrs}
    \cup {DataFrame(id, 1, FALSE) : id \in 1 .. 2}

NextMisuse ==
    \/ \E f \in MisuseFrames :
          /\ f.t = "SYN_STREAM" => ~synStreamRejected(f)
          /\ f.t = "DATA" => DataReachesPipe(f)
          /\ ReadFrame(f)
    \/ OpenCall("t1", FALSE, FALSE)
    \/ OpenAdd("t1")
    \/ OpenFlags("t1")
    \/ OpenWrite("t1")
    \/ \E id \in Ids : ReplyCall("t1", id, FALSE)
    \/ ReplySet("t1")
    \/ ReplyWrite("t1")
    \/ \E id \in Ids : WriteCall("t1", id, 1)
    \/ WriteDec("t1")
    \/ WriteData("t1")
    \/ \E id \in Ids : CloseCall("t1", id)
    \/ CloseWrite("t1")
    \/ CloseWclose("t1")
    \/ \E id \in Ids : ResetCall("t1", id, RefusedStream)
    \/ ResetClose("t1")
    \/ \E id \in Ids : ReadCall("t1", id, 1)
    \/ ReadPipe("t1")
    \/ ReadUpdateWindow("t1")
    \/ \E t \in Tasks : WriteReady(t)
    \/ \E t \in Tasks : CloseReady(t)
    \/ ReaderStep

SpecMisuse == Init /\ [][NextMisuse]_vars

\* Reset has closed stream id: only Reset closes with a resetError
WasReset(id) ==
    \/ st[id].wnd.err = resetError(RefusedStream)
    \/ st[id].pipe.err = resetError(RefusedStream)

\* the call returns an error in this step and writes no frame
FailsAtOnce(op) ==
    /\ ret'["t1"].op = op /\ ret'["t1"].err # NoErr
    /\ tk'["t1"].pc = "idle"
    /\ wire' = wire

\* the call has passed its test of wclosed and goes on to test wready,
\* having written no frame
GoesOnTo(pc) ==
    /\ tk'["t1"].pc = pc
    /\ wire' = wire

\* C18 as stated: a second Reply, a Reply on a stream opened locally, a
\* Write or Close on an accepted stream before Reply, and a Reply, Write,
\* Close or Read after Reset return an error and write no frame
C18_MisuseFails ==
    [][\A id \in Ids :
          /\ ReplyCall("t1", id, FALSE) /\ (st[id].wready \/ WasReset(id))
                => FailsAtOnce("Reply")
          /\ WriteCall("t1", id, 1) /\ WasReset(id) => FailsAtOnce("Write")
          /\ WriteCall("t1", id, 1) /\ ~st[id].wready
                => FailsAtOnce("Write") \/ GoesOnTo("wready")
          /\ WriteReady("t1") /\ tk["t1"].id = id /\ ~st[id].wready
                => FailsAtOnce("Write")
          /\ CloseCall("t1", id) /\ WasReset(id) => FailsAtOnce("Close")
          /\ CloseCall("t1", id) /\ ~st[id].wready
                => FailsAtOnce("Close") \/ GoesOnTo("cready")
          /\ CloseReady("t1") /\ tk["t1"].id = id /\ ~st[id].wready
                => FailsAtOnce("Close")
          /\ ReadPipe("t1") /\ tk["t1"].id = id /\ WasReset(id)
                => FailsAtOnce("Read")]_vars

\* goroutine t is not found with a call that succeeded: a Read without an
\* error, a Header other than nil on a stream opened locally, or an Open,
\* Reply, Close or Reset that returned nil
NoSuccess(t) ==
    tk[t].pc = "idle" =>
        /\ ret[t].op \in {"Read", "Open", "Reply", "Close", "Reset"} => ret[t].err # NoErr
        /\ ret[t].op = "Header" /\ launched[ret[t].id] = 0 => ret[t].h = NilHeader

\* C19 as stated: once the session has terminated (done is closed), every
\* call a goroutine makes from then on fails: Read returns an error, Header
\* of a stream opened locally returns nil, and Open, Reply, Close and Reset return an error
C19_TerminatedFails ==
    \A t \in Tasks :
        [](done /\ tk[t].pc = "idle" /\ NoSuccess(t) => []NoSuccess(t))

(***************************************************************************)
(* Race: two goroutines open streams while the peer opens streams and      *)
(* ReadFrame fails, which starts the teardown.                             *)
(***************************************************************************)
RaceFrames == {SynStreamFrame(id, h, FALSE, FALSE) : id \in 1 .. 2, h \in Hdrs}

NextRace ==
    \/ \E f \in RaceFrames : ~synStreamRejected(f) /\ ReadFrame(f)
    \/ \E e \in EndErrs : ReadFail(e)
    \/ \E id \in Ids : TeardownStream(id)
    \/ TeardownDone
    \/ \E t \in Tasks : OpenCall(t, FALSE, FALSE)
    \/ \E t \in Tasks : OpenAdd(t)
    \/ \E t \in Tasks : OpenFlags(t)
    \/ \E t \in Tasks : OpenWrite(t)

SpecRace == Init /\ [][NextRace]_vars

\* the teardown has closed the receive pipe and the send window of stream id
TornDown(id) == st[id].pipe.b.closed /\ st[id].wnd.closed

\* C20: an Open whose add finds closing set returns an error, takes no id,
\* registers nothing and writes nothing; an Open whose add comes first has
\* its stream in the table when the teardown takes its snapshot, so once
\* closing is set every stream that was ever added is in the snapshot or has
\* its pipe and window closed, and all of them have when done is closed
C20_NoStreamEscapes ==
    /\ [](closing => \A id \in Ids : st[id].made => id \in rd.snap \/ TornDown(id))
    /\ [](done => \A id \in Ids : st[id].made => TornDown(id))
    /\ [][/\ \A e \in EndErrs : ReadFail(e) => closing' /\ rd'.snap = rstreams
          /\ \A t \in Tasks :
               OpenAdd(t) =>
                   IF closing
                   THEN /\ ret'[t].op = "Open" /\ ret'[t].err # NoErr
                        /\ tk'[t].pc = "idle"
                        /\ nextSynId' = nextSynId
                        /\ rstreams' = rstreams /\ st' = st
                        /\ wire' = wire
                   ELSE /\ tk'[t].id = nextSynId
                        /\ rstreams' = rstreams \cup {nextSynId}
                        /\ st'[nextSynId].made]_vars

\* of two Opens one was refused and the other's stream was torn down
C20_Witness ==
    /\ done
    /\ ret["t1"].op = "Open" /\ ret["t1"].err = errClosing
    /\ ret["t2"].op = "Open" /\ ret["t2"].err = NoErr
    /\ TornDown(ret["t2"].id)
    /\ \A id \in Ids : st[id].made <=> id = ret["t2"].id

(***************************************************************************)
(* Ping: the peer sends PING frames; the goroutines started for them run   *)
(* to their end; the framer's writer may fail and recover, and its reader  *)
(* may fail.                                                               *)
(***************************************************************************)
PingFrames == {PingFrame(id) : id \in 1 .. 2}

NextPing ==
    \/ \E f \in PingFrames : ReadFrame(f)
    \/ \E f \in PingFrames : GoWrite(f)
    \/ BreakWriter
    \/ MendWriter
    \/ \E e \in EndErrs : ReadFail(e)
    \/ TeardownDone

SpecPing ==
    Init /\ [][NextPing]_vars /\ WF_vars(\E f \in PingFrames : GoWrite(f))

\* C21: a PING frame that is read starts one goroutine for this very frame
\* and launches no handler; the goroutine writes the frame as it is, once,
\* unless the framer's WriteFrame fails, and every such goroutine comes to
\* its end, so that with a working writer the frames written and the
\* goroutines still to run are as many as the PING frames read
C21_PingEchoed ==
    /\ [](\A id \in Ids : launched[id] = 0)
    /\ [](WriterWorked => Len(wire) + BagCardinality(gobag) = nRead)
    /\ [][/\ \A f \in PingFrames :
               /\ ReadFrame(f) =>
                     /\ gobag' = gobag (+) SetToBag({f})
                     /\ wire' = wire /\ rd' = rd /\ st' = st
               /\ GoWrite(f) /\ ~wbroken =>
                     /\ wire' = Append(wire, f)
                     /\ gobag' = gobag (-) SetToBag({f})
          /\ wire' # wire => \E f \in PingFrames : GoWrite(f)]_vars
    /\ <>[](gobag = EmptyBag)

\* the same PING was read twice and echoed twice, as in sessionTests
C21_Witness ==
    /\ wire = <<PingFrame(1), PingFrame(1)>>
    /\ gobag = EmptyBag /\ nRead = 2 /\ WriterWorked

(***************************************************************************)
(* The HTTP server adapter: ReadRequest, Server.serveStream and the        *)
(* response writer.  Strings the code takes apart are sequences of         *)
(* characters: a request header is modelled by its :path (empty when the   *)
(* field is missing), its :version and its Content-Length, a response      *)
(* header by the names of its plain fields, its :status, its :version and  *)
(* its Content-Length (empty when the field is missing).                   *)
(***************************************************************************)
Digits == {"0", "1", "2", "3", "4", "5", "6", "7", "8", "9"}
HTTP11 == <<"H", "T", "T", "P", "/", "1", ".", "1">>

\* http.StatusOK and http.StatusNotModified
StatusOK == 200
StatusNotModified == 304

\* strconv.Atoi(s) returns no error: an optional sign and then digits only
\* (numbers of the length that overflows int are not among the model's)
AtoiOk(s) ==
    LET d == IF s # <<>> /\ s[1] \in {"+", "-"} THEN Tail(s) ELSE s
    IN d # <<>> /\ \A i \in DOMAIN d : d[i] \in Digits

\* the number a string of digits stands for
RECURSIVE DigitsValue(_)
DigitsValue(d) ==
    IF d = <<>> THEN 0
    ELSE 10 * DigitsValue(SubSeq(d, 1, Len(d) - 1))
         + (CHOOSE v \in 0 .. 9 :
                <<"0", "1", "2", "3", "4", "5", "6", "7", "8", "9">>[v + 1] = d[Len(d)])

\* the number strconv.Atoi(s) returns with no error
Atoi(s) ==
    IF s[1] = "-" THEN 0 - DigitsValue(Tail(s))
    ELSE IF s[1] = "+" THEN DigitsValue(Tail(s))
    ELSE DigitsValue(s)

\* strings.TrimSpace(s), the space being the white space of the model
RECURSIVE TrimSpace(_)
TrimSpace(s) ==
    IF s = <<>> THEN s
    ELSE IF s[1] = " " THEN TrimSpace(Tail(s))
    ELSE IF s[Len(s)] = " " THEN TrimSpace(SubSeq(s, 1, Len(s) - 1))
    ELSE s

badStringError(what, str) == <<what, str>>

\* parseContentLength(cl): -1 when no value is set, the value if it is >= 0
parseContentLength(cl) ==
    LET c == TrimSpace(cl)
    IN IF c = <<>> THEN [n |-> -1, err |-> NoErr]
       ELSE IF ~AtoiOk(c) \/ Atoi(c) < 0
       THEN [n |-> 0, err |-> badStringError("bad Content-Length", c)]
       ELSE [n |-> Atoi(c), err |-> NoErr]

\* strconv.Itoa(n) for n >= 0
RECURSIVE Itoa(_)
Itoa(n) ==
    LET last == <<<<"0", "1", "2", "3", "4", "5", "6", "7", "8", "9">>[(n % 10) + 1]>>
    IN IF n < 10 THEN last ELSE Itoa(n \div 10) \o last

\* http.ParseHTTPVersion(vers) returns ok: "HTTP/", a digit, a dot, a digit
ParseHTTPVersionOk(vers) ==
    /\ Len(vers) = 8
    /\ SubSeq(vers, 1, 5) = <<"H", "T", "T", "P", "/">>
    /\ vers[6] \in Digits /\ vers[7] = "." /\ vers[8] \in Digits

errMissingPath == "missing path"
errInvalidPath(path) == <<"invalid path: ", path>>
errBadVersion(v) == <<"bad http version: ", v>>

\* http.Header{":status": {"400"}}
Status400 == HttpHeader({}, <<>>, <<"4", "0", "0">>, <<>>, <<>>)

\* ReadRequest after the path: the version, then the Content-Length of a
\* header that has one
ReadRequestRest(h) ==
    IF ~ParseHTTPVersionOk(h.version)
    THEN [ok |-> FALSE, err |-> errBadVersion(h.version)]
    ELSE IF TrimSpace(h.cl) # <<>> /\ parseContentLength(TrimSpace(h.cl)).err # NoErr
    THEN [ok |-> FALSE, err |-> parseContentLength(TrimSpace(h.cl)).err]
    ELSE [ok |-> TRUE, err |-> NoErr]

\* a ReadRequest that takes any path
ReadRequest_AnyPath(h) == ReadRequestRest(h)

\* ReadRequest(h, t, r): ok says that the request is not nil
ReadRequest(h) ==
    IF h.path = <<>>
    THEN [ok |-> FALSE, err |-> errMissingPath]
    ELSE IF h.path[1] # "/"
    THEN [ok |-> FALSE, err |-> errInvalidPath(h.path)]
    ELSE ReadRequestRest(h)

\* serveStream, run by goroutine t for stream id: w, err := readRequest(st),
\* which makes the response when ReadRequest took the header
ServeReadRequest(t, id) ==
    /\ tk[t].pc = "idle"
    /\ resp[t].pc = ""
    /\ id \in known /\ launched[id] >= 1
    /\ \A u \in Tasks : resp[u].id # id
    /\ LET r == ReadRequest(st[id].header)
       IN /\ Return(t, Ret("ReadRequest", id, IF r.ok THEN 1 ELSE 0, r.err,
                           st[id].header))
          /\ resp' = [resp EXCEPT ![t] =
                         [NoResp EXCEPT !.id = id,
                                        !.pc = IF r.ok THEN "handler" ELSE "reply400"]]
    /\ UNCHANGED <<opFrame, rstreams, st, wire, hv, nCall>>

\* st.Reply(http.Header{":status": {"400"}}, framing.ControlFlagFin)
ServeReply400(t) ==
    /\ resp[t].pc = "reply400"
    /\ ret[t].op = "ReadRequest"
    /\ ReplyWith(t, resp[t].id, TRUE, Status400)

\* st.Reset(framing.RefusedStream)
ServeReset(t) ==
    /\ resp[t].pc = "reply400"
    /\ ret[t].op = "Reply"
    /\ ResetCall(t, resp[t].id, RefusedStream)

\* a step of the adapter's own code, between two calls on the stream: the
\* response of goroutine t becomes w; what the last call returned is
\* forgotten when a call of the response writer begins
ResponseStep(t, w, begins) ==
    /\ tk[t].pc = "idle"
    /\ resp' = [resp EXCEPT ![t] = w]
    /\ ret' = IF begins THEN [ret EXCEPT ![t] = NoRet] ELSE ret
    /\ UNCHANGED <<opFrame, rstreams, st, wire, tk, hv, nCall>>

\* handler.ServeHTTP(w, w.req), a handler that calls w.Write(p) with
\* len(p) = size: if !w.wroteHeader { w.WriteHeader(http.StatusOK) }
ResponseWrite(t, size) ==
    /\ resp[t].pc = "handler"
    /\ ResponseStep(t, IF resp[t].wroteHeader
                       THEN [resp[t] EXCEPT !.pc = "write", !.size = size]
                       ELSE [resp[t] EXCEPT !.pc = "writeHeader", !.size = size,
                                            !.code = StatusOK, !.fin = FALSE,
                                            !.after = "write"],
                    TRUE)

\* handler.ServeHTTP(w, w.req), a handler that calls w.WriteHeader(code):
\* w.writeHeader(code, false)
ResponseWriteHeader(t, code) ==
    /\ resp[t].pc = "handler"
    /\ ResponseStep(t, [resp[t] EXCEPT !.pc = "writeHeader", !.code = code,
                                       !.fin = FALSE, !.after = "handler"],
                    TRUE)

\* the handler has returned: w.finishRequest()
finishRequest(t) ==
    /\ resp[t].pc = "handler"
    /\ ResponseStep(t, IF resp[t].wroteHeader
                       THEN [resp[t] EXCEPT !.pc = "close"]
                       ELSE [resp[t] EXCEPT !.pc = "writeHeader", !.code = StatusOK,
                                            !.fin = TRUE, !.after = "done"],
                    TRUE)

\* http.StatusText(code), for the codes of the model
StatusText(code) ==
    CASE code = StatusOK -> <<"O", "K">>
      [] code = StatusNotModified ->
            <<"N", "o", "t", " ", "M", "o", "d", "i", "f", "i", "e", "d">>
      [] code = 404 -> <<"N", "o", "t", " ", "F", "o", "u", "n", "d">>
      [] OTHER -> <<>>

\* the header writeHeader hands to Reply, for a handler that set no field
ResponseHeader(code) ==
    LET codestring == Itoa(code)
        statusText == IF StatusText(code) = <<>>
                      THEN <<"s", "t", "a", "t", "u", "s", " ", "c", "o", "d", "e", " ">>
                           \o codestring
                      ELSE StatusText(code)
    IN HttpHeader(IF code = StatusNotModified THEN {} ELSE {"Content-Type"},
                  <<>>, codestring \o <<" ">> \o statusText, HTTP11, <<>>)

\* response.writeHeader: if w.wroteHeader { return }; w.wroteHeader = true
writeHeader(t) ==
    /\ resp[t].pc = "writeHeader"
    /\ ResponseStep(t, IF resp[t].wroteHeader
                       THEN [resp[t] EXCEPT !.pc = resp[t].after]
                       ELSE [resp[t] EXCEPT !.pc = "reply", !.wroteHeader = TRUE],
                    FALSE)

\* err := w.stream.Reply(h, flag)
writeHeaderReply(t) ==
    /\ resp[t].pc = "reply"
    /\ ret[t].op = ""
    /\ ReplyWith(t, resp[t].id, resp[t].fin, ResponseHeader(resp[t].code))

\* if err != nil { w.stream.Reset(framing.InternalError) }
writeHeaderReset(t) ==
    /\ resp[t].pc = "reply"
    /\ ret[t].op = "Reply" /\ ret[t].err # NoErr
    /\ ResetCall(t, resp[t].id, InternalError)

\* writeHeader returns, to Write, to the handler or to serveStream
writeHeaderReturn(t) ==
    /\ resp[t].pc = "reply"
    /\ (ret[t].op = "Reply" /\ ret[t].err = NoErr) \/ ret[t].op = "Reset"
    /\ ResponseStep(t, [resp[t] EXCEPT !.pc = resp[t].after], FALSE)

\* response.Write: return w.stream.Write(p)
ResponseStreamWrite(t) ==
    /\ resp[t].pc = "write"
    /\ ret[t].op # "Write"
    /\ WriteCall(t, resp[t].id, resp[t].size)

\* Write has returned to the handler
ResponseWritten(t) ==
    /\ resp[t].pc = "write"
    /\ ret[t].op = "Write"
    /\ ResponseStep(t, [resp[t] EXCEPT !.pc = "handler"], FALSE)

\* finishRequest: err := w.stream.Close()
finishClose(t) ==
    /\ resp[t].pc = "close"
    /\ ret[t].op = ""
    /\ CloseCall(t, resp[t].id)

\* finishRequest and serveStream return
finishReturn(t) ==
    /\ resp[t].pc = "close"
    /\ ret[t].op = "Close"
    /\ ResponseStep(t, [resp[t] EXCEPT !.pc = "done"], FALSE)

(***************************************************************************)
(* Serve: the peer opens streams with good and bad request headers and the *)
(* server adapter serves each of them in a goroutine of its own, with a    *)
(* handler that writes nothing, writes a header, or writes a byte; the     *)
(* framer's writer may fail and recover.                                   *)
(***************************************************************************)
ReqPaths == {<<>>, <<"/">>, <<".", ".", "/">>}
ReqLengths == {<<"a">>, <<"-", "1">>, <<" ", "7">>}
ReqHdrs ==
    {HttpHeader({}, path, <<>>, version, <<>>) :
        path \in ReqPaths, version \in {HTTP11, <<"H", "T", "T", "P", "/", "0">>}}
    \cup {HttpHeader({}, <<"/">>, <<>>, HTTP11, cl) : cl \in ReqLengths}
HandlerCodes == {404, StatusNotModified}
\* the peer's first stream has any of the headers, its second a bad path
ServeFrames ==
    {SynStreamFrame(1, h, fin, FALSE) : h \in ReqHdrs, fin \in BOOLEAN}
        \cup {SynStreamFrame(3, HttpHeader({}, path, <<>>, HTTP11, <<>>), FALSE, FALSE) :
                 path \in ReqPaths \ {<<"/">>}}

\* the goroutine that session.handle starts for a stream: the n-th goroutine
\* for the peer's n-th stream
ServeTask == <<"t1", "", "t2">>

NextServe ==
    \/ \E f \in ServeFrames : ~synStreamRejected(f) /\ ReadFrame(f)
    \/ \E id \in {1, 3} : ServeReadRequest(ServeTask[id], id)
    \/ \E t \in Tasks : ServeReply400(t)
    \/ \E t \in Tasks : ServeReset(t)
    \/ \E t \in Tasks : ResponseWrite(t, 1)
    \/ \E t \in Tasks, code \in HandlerCodes : ResponseWriteHeader(t, code)
    \/ \E t \in Tasks : finishRequest(t)
    \/ \E t \in Tasks : writeHeader(t)
    \/ \E t \in Tasks : writeHeaderReply(t)
    \/ \E t \in Tasks : writeHeaderReset(t)
    \/ \E t \in Tasks : writeHeaderReturn(t)
    \/ \E t \in Tasks : ResponseStreamWrite(t)
    \/ \E t \in Tasks : ResponseWritten(t)
    \/ \E t \in Tasks : finishClose(t)
    \/ \E t \in Tasks : finishReturn(t)
    \/ \E t \in Tasks : ReplySet(t)
    \/ \E t \in Tasks : ReplyWrite(t)
    \/ \E t \in Tasks : ReplyClose(t)
    \/ \E t \in Tasks : ResetClose(t)
    \/ \E t \in Tasks : WriteReady(t)
    \/ \E t \in Tasks : WriteDec(t)
    \/ \E t \in Tasks : WriteData(t)
    \/ \E t \in Tasks : CloseReady(t)
    \/ \E t \in Tasks : CloseWrite(t)
    \/ \E t \in Tasks : CloseWclose(t)
    \/ BreakWriter
    \/ MendWriter

SpecServe == InitServer /\ [][NextServe]_vars

\* the :path of the header is missing or does not start with a slash
BadPath(h) == h.path = <<>> \/ Head(h.path) # "/"

\* C22: for a stream whose :path is missing or does not start with '/',
\* ReadRequest returns "missing path" or "invalid path: <path>" and no
\* request, the HTTP handler is not called, and the frames written for the
\* stream, by a framer whose writer works, are SYN_REPLY with status 400 and
\* FIN, then RST_STREAM with RefusedStream; a WriteFrame that fails leaves its
\* frame out, and no other frame is written for the stream
C22_BadPathRefused ==
    \A t \in Tasks :
        LET r == ret[t]
            id == resp[t].id
            bad == resp[t].pc # "" /\ BadPath(st[id].header)
            fs == StreamFrames(wire, id)
            want == <<SynReplyFrame(id, Status400, TRUE),
                      RstStreamFrame(id, RefusedStream)>>
        IN /\ bad => resp[t].pc = "reply400" /\ ~resp[t].wroteHeader
           /\ bad /\ r.op = "ReadRequest" =>
                 /\ r.n = 0
                 /\ r.err = IF st[id].header.path = <<>> THEN "missing path"
                            ELSE <<"invalid path: ", st[id].header.path>>
           /\ bad => fs \in {<<>>, <<want[1]>>, <<want[2]>>, want}
           /\ bad /\ r.op = "Reply" /\ r.err = NoErr => fs = <<want[1]>>
           /\ bad /\ r.op = "Reset" /\ r.err = NoErr => fs # <<>> /\ fs[Len(fs)] = want[2]
           /\ bad /\ WriterWorked /\ r.op = "Reply" => Len(fs) = 1 /\ r.err = NoErr
           /\ bad /\ WriterWorked /\ r.op = "Reset" => fs = want /\ r.err = NoErr

C22_Witness ==
    /\ ret["t1"].op = "Reset" /\ ret["t2"].op = "Reset"
    /\ st[resp["t1"].id].header.path = <<>>
    /\ st[resp["t2"].id].header.path = <<".", ".", "/">>
    /\ Len(wire) = 4 /\ WriterWorked

(***************************************************************************)
(* The HTTP client adapter: ReadResponse and Conn.RoundTrip.               *)
(***************************************************************************)
badRespHeaderFields == <<"Connection", "Keep-Alive", "Proxy-Connection", "Transfer-Encoding">>

\* strings.SplitN(s, " ", 2)[0]: s up to its first space, all of s without one
FirstWord(s) ==
    LET sp == {i \in DOMAIN s : s[i] = " "}
    IN IF sp = {} THEN s
       ELSE SubSeq(s, 1, (CHOOSE i \in sp : \A j \in sp : i <= j) - 1)

\* strconv.Atoi of the first word of :status succeeds
StatusCodeOk(status) == AtoiOk(FirstWord(status))

\* a / b as Go divides, towards zero
Quo(a, b) == IF a >= 0 THEN a \div b ELSE 0 - ((0 - a) \div b)

\* fixLength(true, status, requestMethod, h): the expected length of the body
fixLength(status, requestMethod, h) ==
    IF requestMethod = "HEAD" THEN [n |-> 0, err |-> NoErr]
    ELSE IF Quo(status, 100) = 1 THEN [n |-> 0, err |-> NoErr]
    ELSE IF status \in {204, 304} THEN [n |-> 0, err |-> NoErr]
    ELSE IF TrimSpace(h.cl) # <<>>
    THEN LET r == parseContentLength(TrimSpace(h.cl))
         IN IF r.err # NoErr THEN [n |-> -1, err |-> r.err] ELSE r
    ELSE [n |-> -1, err |-> NoErr]

\* the checks of ReadResponse after the header fields: the status code, the
\* version, the length of the body
ReadResponseRest(h, method) ==
    IF ~StatusCodeOk(h.status)
    THEN [ok |-> FALSE,
          err |-> badStringError("malformed HTTP status code", FirstWord(h.status))]
    ELSE IF ~ParseHTTPVersionOk(h.version)
    THEN [ok |-> FALSE, err |-> badStringError("malformed HTTP version", h.version)]
    ELSE IF fixLength(Atoi(FirstWord(h.status)), method, h).err # NoErr
    THEN [ok |-> FALSE, err |-> fixLength(Atoi(FirstWord(h.status)), method, h).err]
    ELSE IF method = "HEAD" /\ parseContentLength(h.cl).err # NoErr
    THEN [ok |-> FALSE, err |-> parseContentLength(h.cl).err]
    ELSE [ok |-> TRUE, err |-> NoErr]

\* a ReadResponse that takes every header field
ReadResponse_AnyField(h, method) == ReadResponseRest(h, method)

\* ReadResponse(h, t, r, req) with req.Method = method: ok says that the
\* response is not nil
ReadResponse(h, method) ==
    LET bad == {i \in DOMAIN badRespHeaderFields : badRespHeaderFields[i] \in h.fields}
    IN IF bad # {}
       THEN LET first == CHOOSE i \in bad : \A j \in bad : i <= j
            IN [ok |-> FALSE,
                err |-> badStringError("invalid header field", badRespHeaderFields[first])]
       ELSE ReadResponseRest(h, method)

\* RoundTrip(r) begins, r a request without body whose Method is method
RoundTrip(t, method) ==
    /\ resp[t].pc = ""
    /\ ret[t].op = ""
    /\ ResponseStep(t, [NoResp EXCEPT !.pc = "open", !.method = method], FALSE)

\* RoundTrip of a request without body: c.s.Open(RequestFramingHeader(r), FIN)
RoundTripOpen(t) ==
    /\ resp[t].pc = "open"
    /\ ret[t].op = ""
    /\ OpenCall(t, TRUE, FALSE)

\* st, err := c.s.Open(...) fails: return nil, err
RoundTripOpenFail(t) ==
    /\ tk[t].pc = "idle"
    /\ resp[t].pc = "open"
    /\ ret[t].op = "Open" /\ ret[t].err # NoErr
    /\ Return(t, Ret("RoundTrip", ret[t].id, 0, ret[t].err, NilHeader))
    /\ UNCHANGED <<opFrame, rstreams, st, wire, hv, nCall, resp>>

\* h := st.Header()
RoundTripHeader(t) ==
    /\ ret[t].op = "Open" /\ ret[t].err = NoErr
    /\ HeaderCall(t, ret[t].id)

\* resp, err := ReadResponse(h, nil, st, r) fails: st.Reset(framing.ProtocolError)
RoundTripReset(t) ==
    /\ ret[t].op = "Header"
    /\ ~ReadResponse(ret[t].h, resp[t].method).ok
    /\ ResetCall(t, ret[t].id, ProtocolError)

\* return nil, err
RoundTripFail(t) ==
    /\ tk[t].pc = "idle"
    /\ ret[t].op = "Reset"
    /\ Return(t, Ret("RoundTrip", ret[t].id, 0,
                      ReadResponse(st[ret[t].id].header, resp[t].method).err,
                      NilHeader))
    /\ UNCHANGED <<opFrame, rstreams, st, wire, hv, nCall, resp>>

\* return resp, nil
RoundTripDone(t) ==
    /\ tk[t].pc = "idle"
    /\ ret[t].op = "Header"
    /\ ReadResponse(ret[t].h, resp[t].method).ok
    /\ Return(t, Ret("RoundTrip", ret[t].id, 1, NoErr, ret[t].h))
    /\ UNCHANGED <<opFrame, rstreams, st, wire, hv, nCall, resp>>

(***************************************************************************)
(* Round trip: a goroutine sends a request without body and the peer       *)
(* answers with SYN_REPLY frames of good and bad headers, or the session   *)
(* ends before the answer.                                                 *)
(***************************************************************************)
Status200 == <<"2", "0", "0", " ", "O", "K">>
Status204 == <<"2", "0", "4", " ", "N", "o", " ", "C", "o", "n", "t", "e", "n", "t">>
RoundTripMethods == {"GET", "HEAD"}
RespStatus ==
    {Status200, <<"3", "0", "3", " ">>, <<"3", "0", "3">>, <<"a", " ", "b">>, <<>>}
RespFields ==
    {{}, {"X"}, {"Connection"}, {"Keep-Alive"}, {"Proxy-Connection"},
     {"Transfer-Encoding"}, {"Keep-Alive", "Transfer-Encoding"}}
RespLengths == {<<"a">>, <<"7">>}
RespHdrs ==
    {HttpHeader(fields, <<>>, Status200, HTTP11, <<>>) : fields \in RespFields}
    \cup {HttpHeader({}, <<>>, status, version, <<>>) :
             status \in RespStatus, version \in {HTTP11, <<"S", "P", "D", "Y">>}}
    \cup {HttpHeader({}, <<>>, status, HTTP11, cl) :
             status \in {Status200, Status204, <<"1", "0", "0">>}, cl \in RespLengths}
    \cup {HttpHeader({"Connection"}, <<>>, <<"a">>, <<"S", "P", "D", "Y">>, <<"a">>)}
RoundTripFrames ==
    {SynReplyFrame(id, h, fin) : id \in 1 .. 2, h \in RespHdrs, fin \in BOOLEAN}

NextRoundTrip ==
    \/ \E f \in RoundTripFrames :
          /\ f.id \in rstreams /\ replySendable(st[f.id])
          /\ ReadFrame(f)
    \/ \E method \in RoundTripMethods : RoundTrip("t1", method)
    \/ RoundTripOpen("t1")
    \/ OpenAdd("t1")
    \/ OpenFlags("t1")
    \/ OpenWrite("t1")
    \/ RoundTripOpenFail("t1")
    \/ RoundTripHeader("t1")
    \/ HeaderRecv("t1")
    \/ HeaderNil("t1")
    \/ RoundTripReset("t1")
    \/ ResetClose("t1")
    \/ RoundTripFail("t1")
    \/ RoundTripDone("t1")
    \/ ReaderStep
    \/ ReadFail(errEOF)
    \/ \E id \in Ids : TeardownStream(id)
    \/ TeardownDone

SpecRoundTrip == InitClient /\ [][NextRoundTrip]_vars

\* the header has one of the fields a SPDY response must not have
HasBadField(h) ==
    h.fields \cap {"Connection", "Keep-Alive", "Proxy-Connection", "Transfer-Encoding"} # {}

\* C23: when the header of the SYN_REPLY has Connection, Keep-Alive,
\* Proxy-Connection or Transfer-Encoding, RoundTrip returns no response and
\* the error "invalid header field" that names such a field of the header,
\* and it has written RST_STREAM with ProtocolError for the stream behind its
\* SYN_STREAM
C23_BadResponseHeader ==
    LET r == ret["t1"]
    IN r.op = "RoundTrip" /\ r.id \in Ids /\ HasBadField(st[r.id].header) =>
          /\ r.n = 0
          /\ r.err[1] = "invalid header field"
          /\ r.err[2] \in st[r.id].header.fields
          /\ HasBadField([fields |-> {r.err[2]}])
          /\ StreamFrames(wire, r.id) =
                <<SynStreamFrame(r.id, SentHeader, TRUE, FALSE),
                  RstStreamFrame(r.id, ProtocolError)>>

C23_Witness ==
    /\ ret["t1"].op = "RoundTrip" /\ ret["t1"].id = 1
    /\ st[ret["t1"].id].header.fields = {"Keep-Alive", "Transfer-Encoding"}
    /\ ret["t1"].err = <<"invalid header field", "Keep-Alive">>
    /\ Len(wire) = 2

\* C24 as stated: the reader goroutine writes no frame itself, so it is never
\* at a call of writeFrame, where it would wait for the write lock and the
\* byte channel; all the frames it causes are written by other goroutines
C24_ReaderNeverWrites == rd.pc \notin {"reset", "wuReset"}

\* the first SYN_REPLY of locally opened stream id has been taken: it sits in
\* the reply slot or Header has moved it to s.header
FirstReplyTaken(id) == st[id].slot # <<>> \/ st[id].header # NilHeader

\* C25 as stated: a SYN_REPLY for an unknown stream, for a stream without a
\* reply slot, or for a locally opened stream that already took its first
\* SYN_REPLY is not delivered (no stream changes) and starts the write of
\* RST_STREAM InvalidStream, however the frame interleaves with a Header call
C25_LaterSynReplyRefused ==
    [][\A f \in HeaderFrames :
          /\ ReadFrame(f) /\ f.id \notin rstreams
              => /\ st' = st
                 /\ gobag' = gobag (+) SetToBag({RstStreamFrame(f.id, InvalidStream)})
          /\ ReaderStep /\ rd.pc = "synReply" /\ rd.f = f
              /\ (~st[f.id].reply \/ FirstReplyTaken(f.id))
              => /\ st' = st
                 /\ gobag' = gobag (+) SetToBag({RstStreamFrame(f.id, InvalidStream)})]_vars

WndCloseSize == 2
WndCloseFrames ==
    {SettingsFrame(SettingsInitialWindowSize, 0, v) : v \in {0, 1}}
    \cup {WindowUpdateFrame(1, 0, d) : d \in {0, 1}}

NextWndClose ==
    \/ \E f \in WndCloseFrames :
          /\ f.t = "SETTINGS" <=> nRead = 0
          /\ ReadFrame(f)
    \/ ReaderWuReset
    \/ ReaderWuClose
    \/ ReadFail(errFramerRead)
    \/ \E id \in Ids : TeardownStream(id)
    \/ TeardownDone
    \/ nRead >= 1 /\ nextSynId = 1 /\ OpenCall("t1", FALSE, FALSE)
    \/ OpenAdd("t1")
    \/ OpenFlags("t1")
    \/ OpenWrite("t1")
    \/ /\ ret["t1"].op = "Open" /\ ret["t1"].err = NoErr
       /\ WriteCall("t1", ret["t1"].id, WndCloseSize)
    \/ WriteCheck("t1")
    \/ WriteDec("t1")
    \/ WriteData("t1")
    \/ WriteReset("t1")
    \/ WriteResetClose("t1")
    \/ \E id \in Ids : ret["t2"].op = "" /\ ResetCall("t2", id, RefusedStream)
    \/ ResetClose("t2")
    \/ \E t \in Tasks : WriteReady(t)
    \/ ReaderStep

SpecWndClose == InitClient /\ [][NextWndClose]_vars

\* RST_STREAM InternalError for stream id is among the frames w
InternalErrorSent(w, id) ==
    \E i \in 1 .. Len(w) : w[i] = RstStreamFrame(id, InternalError)

\* goroutine t's Write returns an error with this step
WriteFails(t) == ret'[t] # ret[t] /\ ret'[t].op = "Write" /\ ret'[t].err # NoErr

\* C26 as stated: a Write that fails on a stream whose send window is closed
\* returns the window's close error, RST_STREAM InternalError has been written
\* for the stream, and both directions of the stream are closed
C26_ClosedWindowWrite ==
    [][\A t \in Tasks :
          WriteFails(t) /\ st[ret'[t].id].wnd.closed
          => /\ ret'[t].err = st[ret'[t].id].wnd.err
             /\ InternalErrorSent(wire', ret'[t].id)
             /\ st'[ret'[t].id].rclosed /\ st'[ret'[t].id].wclosed]_vars

\* C26, amended: once a Write has passed writeData's wclosed and wready checks,
\* a closed send window wakes it, Dec gives it no credit and no DATA follows,
\* and the Write returns the window's close error with the count sent before,
\* after RST_STREAM InternalError was written and both directions were closed
C26_WindowClosedAtDec ==
    /\ [](\A t \in Tasks :
             /\ tk[t].pc = "decWait" => ~st[tk[t].id].wnd.closed
             /\ tk[t].pc \in {"wreset", "wresetClose"}
                => st[tk[t].id].wnd.closed /\ tk[t].e = st[tk[t].id].wnd.err)
    /\ [][\A t \in Tasks :
             tk[t].pc = "dec" /\ st[tk[t].id].wnd.closed /\ WriteDec(t)
             => tk'[t].pc = "wreset" /\ wire' = wire]_vars
    /\ [][\A t \in Tasks :
             /\ tk[t].pc = "wreset" /\ tk'[t].pc # "wreset"
                => /\ tk'[t].pc = "wresetClose"
                   /\ wire' = Append(wire, RstStreamFrame(tk[t].id, InternalError))
             /\ WriteResetClose(t) => wire' = wire
             /\ tk[t].pc = "wresetClose" /\ tk'[t].pc # "wresetClose"
                => /\ ret'[t] = Ret("Write", tk[t].id, tk[t].sent,
                                    st[tk[t].id].wnd.err, NilHeader)
                   /\ tk'[t].pc = "idle"
                   /\ InternalErrorSent(wire, tk[t].id)
                   /\ st'[tk[t].id].rclosed /\ st'[tk[t].id].wclosed]_vars

\* a Write that waited for credit returned the error of the Reset that closed
\* the window, and RST_STREAM InternalError follows it on the wire
C26_Witness ==
    /\ ret["t1"].op = "Write"
    /\ ret["t1"].err = resetError(RefusedStream)
    /\ InternalErrorSent(wire, ret["t1"].id)
    /\ st[ret["t1"].id].wnd.n < 1
    /\ st[ret["t1"].id].rclosed /\ st[ret["t1"].id].wclosed

\* the WINDOW_UPDATE frames of stream id among the frames w
WuOf(w, id) == SelectSeq(w, LAMBDA f : f.t = "WINDOW_UPDATE" /\ f.id = id)

\* goroutine t's Read returns with this step
ReadReturns(t) == ret'[t] # ret[t] /\ ret'[t].op = "Read"

\* C27: the step with which a Read returns n >= 1 bytes writes the one frame
\* WINDOW_UPDATE(id, n), a Read that returns 0 bytes writes nothing, and no
\* other step writes a WINDOW_UPDATE, so that the deltas written for a stream
\* add up to the bytes its Reads have returned
C27_ReadWindowUpdate ==
    /\ [][\A t \in Tasks :
             ReadReturns(t)
             => wire' = IF ret'[t].n >= 1
                        THEN Append(wire, WindowUpdateFrame(ret'[t].id, 0, ret'[t].n))
                        ELSE wire]_vars
    /\ [][\A id \in Ids :
             WuOf(wire', id) # WuOf(wire, id)
             => \E t \in Tasks :
                   /\ ReadReturns(t) /\ ret'[t].id = id /\ ret'[t].n >= 1
                   /\ WuOf(wire', id)
                        = Append(WuOf(wire, id),
                                 WindowUpdateFrame(id, 0, ret'[t].n))]_vars
    /\ [][\A t \in Tasks :
             tk[t].pc \in {"read", "readWait"} /\ tk'[t].pc # "idle"
             => WuOf(wire', tk[t].id) = WuOf(wire, tk[t].id)]_vars

\* a Read of stream id returned 0 bytes and an error after an earlier Read had
\* returned bytes and written its WINDOW_UPDATE
C27_Witness ==
    /\ ret["t1"].op = "Read" /\ ret["t1"].n = 0 /\ ret["t1"].err # NoErr
    /\ Len(WuOf(wire, ret["t1"].id)) = 1
    /\ WuOf(wire, ret["t1"].id)[1].v >= 1

(***************************************************************************)
(* SETTINGS: the peer opens streams and sends SETTINGS frames whose entry  *)
(* is InitialWindowSize or another id, with a value below, at or above     *)
(* 2^31, while a goroutine opens streams.                                  *)
(***************************************************************************)
SettingsOther == "other"
SettingsIds == {SettingsInitialWindowSize, SettingsOther}
\* entry values as (bit 31, low 31 bits): 0, 1, 2^31 - 1, 2^31, 2^31 + 1
SettingsValues == {<<0, 0>>, <<0, 1>>, <<0, MaxInt32>>, <<1, 0>>, <<1, 1>>}

SettingsFrames ==
    {SettingsFrame(sid, x[1], x[2]) : sid \in SettingsIds, x \in SettingsValues}
    \cup {SynStreamFrame(id, h, FALSE, FALSE) : id \in 1 .. 2, h \in Hdrs}

NextSettings ==
    \/ \E f \in SettingsFrames :
          /\ f.t = "SYN_STREAM" => ~synStreamRejected(f)
          /\ ReadFrame(f)
    \/ OpenCall("t1", FALSE, FALSE)
    \/ OpenAdd("t1")
    \/ OpenFlags("t1")
    \/ OpenWrite("t1")

SpecSettings == Init /\ [][NextSettings]_vars

\* C28: a SETTINGS entry InitialWindowSize = v with v < 2^31 sets initwnd to v,
\* any other entry leaves initwnd as it is, and in both cases no stream and no
\* send window changes; a stream made afterwards, by Open or for a SYN_STREAM,
\* starts with the send window initwnd held when newStream ran
C28_SettingsInitialWindow ==
    /\ [][\A f \in SettingsFrames :
             ReadFrame(f) /\ f.t = "SETTINGS"
             => /\ initwnd' = IF f.status = SettingsInitialWindowSize /\ f.hi = 0
                              THEN f.v ELSE initwnd
                /\ UNCHANGED <<st, rstreams, nextSynId, lastRecvId, wire, gobag,
                               tk, ret, known, launched>>]_vars
    /\ [][/\ \A t \in Tasks : OpenCall(t, FALSE, FALSE) => tk'[t].n = initwnd
          /\ \A t \in Tasks :
                OpenAdd(t) /\ tk'[t].pc = "openFlags"
                => st'[tk'[t].id].wnd = NewSemaphore(tk[t].n)
          /\ \A f \in SettingsFrames :
                ReadFrame(f) /\ f.t = "SYN_STREAM" /\ st'[f.id] # st[f.id]
                => st'[f.id].wnd = NewSemaphore(initwnd)
          /\ \A id \in Ids : st[id].made => st'[id].wnd = st[id].wnd]_vars
    /\ [](initwnd >= 0)

\* initwnd was set to 1 by a SETTINGS frame; a stream accepted before it keeps
\* the default send window and a stream opened after it has the send window 1
C28_Witness ==
    /\ initwnd = 1
    /\ \E a, b \in Ids :
          /\ st[a].made /\ st[a].wnd.n = defaultInitWnd
          /\ st[b].made /\ st[b].wnd.n = 1

(***************************************************************************)
(* The write lock: Session.writeFrame in its steps.  A goroutine takes     *)
(* s.wmu, calls Framer.WriteFrame, which waits while the byte channel      *)
(* takes no more, and releases s.wmu when WriteFrame has returned.  One    *)
(* goroutine opens a stream and writes 2 bytes against a send window of 0  *)
(* or 1, another reads from the stream, the peer sends DATA, credit and    *)
(* WINDOW_UPDATE frames of delta 0.                                        *)
(***************************************************************************)
\* the user goroutines inside writeFrame's critical section
WmuHolders == {t \in Tasks : tk[t].held}
WmuFree == WmuHolders = {}

\* goroutine t is at a call of s.sess.writeFrame in Read or Write
AtWriteFrame(t) == tk[t].pc \in {"wdata", "wreset", "updWin"}

\* a Read or Write that takes the write lock before it waits for bytes or credit
WmuLock_Early(t) ==
    /\ AtWriteFrame(t) \/ tk[t].pc \in {"dec", "read"}
    /\ WmuFree
    /\ tk' = [tk EXCEPT ![t].held = TRUE]
    /\ UNCHANGED <<isServer, nextSynId, lastRecvId, initwnd, closing, rstreams, err,
                   done, openMu, st, wire, wbroken, nRead, rd, gobag, launched,
                   known, ret, hv, nCall, resp>>

\* s.wmu.Lock()
WmuLock(t) ==
    /\ AtWriteFrame(t)
    /\ WmuFree
    /\ tk' = [tk EXCEPT ![t].held = TRUE]
    /\ UNCHANGED <<isServer, nextSynId, lastRecvId, initwnd, closing, rstreams, err,
                   done, openMu, st, wire, wbroken, nRead, rd, gobag, launched,
                   known, ret, hv, nCall, resp>>

\* return s.fr.WriteFrame(f), by the goroutine that holds s.wmu
WmuWrite(t) ==
    /\ tk[t].held
    /\ WriteData(t) \/ WriteReset(t) \/ ReadUpdateWindow(t)

\* defer s.wmu.Unlock(), when the caller of writeFrame goes on
WmuUnlock(t) ==
    /\ tk[t].held
    /\ ~AtWriteFrame(t)
    /\ tk' = [tk EXCEPT ![t].held = FALSE]
    /\ UNCHANGED <<isServer, nextSynId, lastRecvId, initwnd, closing, rstreams, err,
                   done, openMu, st, wire, wbroken, nRead, rd, gobag, launched,
                   known, ret, hv, nCall, resp>>

LockSize == 2
LockFrames ==
    {SettingsFrame(SettingsInitialWindowSize, 0, v) : v \in {0, 1}}
    \cup {WindowUpdateFrame(id, 0, d) : id \in 1 .. 2, d \in {0, 1}}
    \cup {DataFrame(id, 1, FALSE) : id \in 1 .. 2}

NextLock ==
    \/ \E f \in LockFrames :
          /\ f.t = "SETTINGS" <=> nRead = 0
          /\ f.t = "DATA" => DataReachesPipe(f)
          /\ ReadFrame(f)
    \/ WmuFree /\ ReaderWuReset
    \/ ReaderWuClose
    \/ nRead >= 1 /\ OpenCall("t1", FALSE, FALSE)
    \/ OpenAdd("t1")
    \/ OpenFlags("t1")
    \/ WmuFree /\ OpenWrite("t1")
    \/ /\ ret["t1"].op = "Open" /\ ret["t1"].err = NoErr
       /\ WriteCall("t1", ret["t1"].id, LockSize)
    \/ ~tk["t1"].held /\ WriteCheck("t1")
    \/ ~tk["t1"].held /\ WriteDec("t1")
    \/ ~tk["t1"].held /\ WriteResetClose("t1")
    \/ \E id \in Ids : ReadCall("t2", id, 1)
    \/ ReadPipe("t2")
    \/ \E t \in Tasks : WmuLock(t)
    \/ \E t \in Tasks : WmuWrite(t)
    \/ \E t \in Tasks : WmuUnlock(t)
    \/ \E t \in Tasks : WriteReady(t)
    \/ ReaderStep

SpecLock == Init /\ [][NextLock]_vars

\* C29: a goroutine that holds the write lock is at Framer.WriteFrame or has
\* just returned from it, never waiting for credit or for bytes; at most one
\* goroutine holds the lock; every frame of Read and Write is written by the
\* holder, and the holder writes one frame and no second one before it
\* releases the lock
C29_WriteLockPerFrame ==
    /\ [](\A t \in Tasks :
             tk[t].held
             => tk[t].pc \in {"wdata", "wreset", "updWin", "wcheck", "wresetClose"})
    /\ [](Cardinality(WmuHolders) <= 1)
    /\ [][\A t \in Tasks :
             tk[t].pc \in {"wdata", "wreset", "updWin"} /\ tk'[t].pc # tk[t].pc
             => tk[t].held /\ Len(wire') = Len(wire) + 1]_vars
    /\ [][(\E t \in Tasks : tk[t].held /\ ~AtWriteFrame(t)) => wire' = wire]_vars

\* the writer holds the write lock at Framer.WriteFrame while the reading
\* goroutine waits for bytes on the receive pipe, after frames were written
C29_Witness ==
    /\ tk["t1"].held /\ tk["t1"].pc = "wdata"
    /\ tk["t2"].pc = "readWait"
    /\ \E i \in 1 .. Len(wire) : wire[i].t = "DATA"

(***************************************************************************)
(* Closing a send window with several waiters: the peer sets the initial   *)
(* window to 0; one goroutine opens a stream, and both goroutines write a  *)
(* byte to it and wait in Dec; then the peer sends a WINDOW_UPDATE of      *)
(* delta 0 or credit, or the connection fails.                             *)
(***************************************************************************)
SemCloseSize == 1
SemCloseFrames ==
    {SettingsFrame(SettingsInitialWindowSize, 0, 0)}
    \cup {WindowUpdateFrame(id, 0, d) : id \in 1 .. 2, d \in {0, 1}}

NextSemClose ==
    \/ \E f \in SemCloseFrames :
          /\ f.t = "SETTINGS" <=> nRead = 0
          /\ ReadFrame(f)
    \/ ReaderWuReset
    \/ ReaderWuClose
    \/ ReadFail(errFramerRead)
    \/ \E id \in Ids : TeardownStream(id)
    \/ TeardownDone
    \/ nRead >= 1 /\ OpenCall("t1", FALSE, FALSE)
    \/ OpenAdd("t1")
    \/ OpenFlags("t1")
    \/ OpenWrite("t1")
    \/ \E t \in Tasks, id \in Ids : WriteCall(t, id, SemCloseSize)
    \/ \E t \in Tasks : WriteDec(t)
    \/ \E t \in Tasks : WriteData(t)
    \/ \E t \in Tasks : WriteReset(t)
    \/ \E t \in Tasks : WriteResetClose(t)
    \/ \E t \in Tasks : WriteReady(t)
    \/ ReaderStep

SpecSemClose == Init /\ [][NextSemClose]_vars

\* C30 as stated: the step that closes a send window takes every goroutine
\* that waits in Dec on that window out of its wait, so that each of them
\* returns (0, closeErr) and none stays blocked
C30_CloseWakesAll ==
    [][\A id \in Ids :
          ~st[id].wnd.closed /\ st'[id].wnd.closed
          => \A t \in Tasks :
                tk[t].pc = "decWait" /\ tk[t].id = id => tk'[t].pc = "dec"]_vars

\* semaphores with a counter below, at and above 1, open or closed
SemSamples ==
    {[n |-> n, closed |-> FALSE, err |-> NoErr] : n \in {-1, 0, 1, 2}}
    \cup {[n |-> n, closed |-> TRUE, err |-> e] :
             n \in {-1, 0, 1, 2}, e \in {errClosed, errFlowControl}}
SemCloseErrs == {errClosed, errFlowControl, resetError(RefusedStream)}

\* C31: Close on a closed semaphore changes nothing, so the first error stays;
\* a Dec on a closed semaphore returns (0, that error) and leaves the counter
\* as it is, also when the counter is positive; in a session a closed send
\* window stays closed with its error, and a Write's Dec on it takes nothing
C31_CloseSticky ==
    /\ \A s \in SemSamples, a \in SemCloseErrs, b \in SemCloseErrs, n \in 1 .. 3 :
          LET c == SemClose(s, a)
          IN /\ c.closed /\ c.n = s.n
             /\ c.err = IF s.closed THEN s.err ELSE a
             /\ SemClose(c, b) = c
             /\ ~SemMustWait(c)
             /\ SemDec(c, n) = [s |-> c, n |-> 0, err |-> c.err]
    /\ [][\A id \in Ids :
             st[id].wnd.closed
             => st'[id].wnd.closed /\ st'[id].wnd.err = st[id].wnd.err]_vars
    /\ [][\A t \in Tasks :
             WriteDec(t) /\ st[tk[t].id].wnd.closed
             => /\ tk'[t].pc = "wreset"
                /\ tk'[t].e = st[tk[t].id].wnd.err
                /\ st' = st]_vars

\* a Write found the send window closed by a Reset while the counter was 1:
\* it returned the Reset's error, and the Close of its own Reset(InternalError)
\* left that error and the counter in place
C31_Witness ==
    /\ ret["t1"].op = "Write"
    /\ ret["t1"].err = resetError(RefusedStream)
    /\ InternalErrorSent(wire, ret["t1"].id)
    /\ st[ret["t1"].id].wnd = [n |-> 1, closed |-> TRUE,
                               err |-> resetError(RefusedStream)]

(***************************************************************************)
(* The buffer on its own, with its bytes: a goroutine holds a buffer of    *)
(* BufCap bytes in any state the indices allow (0 <= r <= w <= len(buf)),  *)
(* open or closed, and calls Read, Write and Close on it.                  *)
(***************************************************************************)
BufCap == 3
Bytes == {"a", "b"}
\* the arguments of Write: up to BufCap + 1 bytes, neighbours different
WriteArgs ==
    {p \in UNION {[1 .. k -> Bytes] : k \in 0 .. BufCap + 1} :
        \A i \in 2 .. Len(p) : p[i] # p[i - 1]}

\* copy(dst[off:], src), n bytes of it: dst afterwards
CopyAt(dst, off, src, n) ==
    [i \in 1 .. Len(dst) |-> IF off < i /\ i <= off + n THEN src[i - off] ELSE dst[i]]

\* the unread bytes b.buf[b.r:b.w]
BufUnread(b) == SubSeq(b.buf, b.r + 1, b.w)

\* buffer.Read(p) with the bytes: n = copy(p, b.buf[b.r:b.w])
BufReadBytes(b, size) ==
    LET res == BufRead(b, size)
    IN [b |-> res.b, n |-> res.n, err |-> res.err,
        p |-> SubSeq(b.buf, b.r + 1, b.r + res.n)]

\* a Write whose slide resets the indices and leaves the bytes where they are
BufWriteBytes_NoMove(b, p) ==
    LET cap == Len(b.buf)
        res == BufWrite(b, Len(p), cap)
        b1 == BufSlide(b, Len(p), cap)
    IN [b |-> [res.b EXCEPT !.buf = CopyAt(b.buf, b1.w, p, res.n)],
        n |-> res.n, err |-> res.err, p |-> <<>>]

\* buffer.Write(p) with the bytes: the slide copies b.buf[b.r:b.w] to the
\* beginning, then n bytes of p are copied to b.buf[b.w:]
BufWriteBytes(b, p) ==
    LET cap == Len(b.buf)
        res == BufWrite(b, Len(p), cap)
        b1 == BufSlide(b, Len(p), cap)
        buf1 == IF b.closed \/ b1 = b THEN b.buf
                ELSE CopyAt(b.buf, 0, BufUnread(b), b.w - b.r)
        buf2 == CopyAt(buf1, b1.w, p, res.n)
    IN [b |-> [res.b EXCEPT !.buf = buf2], n |-> res.n, err |-> res.err, p |-> <<>>]

BufSamples ==
    {[buf |-> c, r |-> x[1], w |-> x[2], closed |-> cl] :
        c \in [1 .. BufCap -> Bytes],
        x \in {y \in (0 .. BufCap) \X (0 .. BufCap) : y[1] <= y[2]},
        cl \in BOOLEAN}

InitBuffer ==
    /\ isServer = FALSE
    /\ nextSynId = 1
    /\ lastRecvId = 0
    /\ initwnd = defaultInitWnd
    /\ closing = FALSE
    /\ rstreams = {}
    /\ err = NoErr
    /\ done = FALSE
    /\ openMu = NoTask
    /\ st = [i \in Ids |-> NoStream]
    /\ wire = <<>>
    /\ wbroken = FALSE
    /\ nRead = 0
    /\ rd = Reading
    /\ gobag = EmptyBag
    /\ launched = [i \in Ids |-> 0]
    /\ known = {}
    /\ \E b \in BufSamples :
          tk = [t \in Tasks |-> IF t = "t1" THEN [pc |-> "buffer", b |-> b] ELSE Idle]
    /\ ret = [t \in Tasks |-> NoRet]
    /\ hv = [replyOverlap |-> {}, early |-> {}, finRecv |-> {}, badWu |-> {},
             stacked |-> {}, wfailed |-> FALSE]
    /\ nCall = 0
    /\ resp = [t \in Tasks |-> NoResp]

\* the goroutine's call returns res and leaves the buffer res.b
BufferReturn(op, res) ==
    /\ tk' = [tk EXCEPT !["t1"].b = res.b]
    /\ ret' = [ret EXCEPT !["t1"] = [op |-> op, n |-> res.n, err |-> res.err,
                                      p |-> res.p]]
    /\ UNCHANGED <<opFrame, rstreams, st, wire, hv, nCall, resp>>

BufferReadCall(size) ==
    /\ tk["t1"].pc = "buffer"
    /\ BufferReturn("Read", BufReadBytes(tk["t1"].b, size))

BufferWriteCall(p) ==
    /\ tk["t1"].pc = "buffer"
    /\ BufferReturn("Write", BufWriteBytes(tk["t1"].b, p))

BufferCloseCall ==
    /\ tk["t1"].pc = "buffer"
    /\ BufferReturn("Close", [b |-> BufClose(tk["t1"].b), n |-> 0, err |-> NoErr,
                              p |-> <<>>])

NextBuffer ==
    \/ \E size \in 0 .. BufCap + 1 : BufferReadCall(size)
    \/ \E p \in WriteArgs : BufferWriteCall(p)
    \/ BufferCloseCall

SpecBuffer == InitBuffer /\ [][NextBuffer]_vars

\* C32 as stated: Read returns the first n = min(len(p), w - r) unread bytes
\* and advances r by n, changing nothing else; the error is io.EOF exactly when
\* the buffer is closed and empty afterwards, the empty-read error when the
\* open buffer held no unread byte, and nil when the open buffer returned at
\* least one byte, also when that drained it
C32_BufferRead ==
    [][\A size \in 0 .. BufCap + 1 :
          BufferReadCall(size)
          => LET b == tk["t1"].b
                 b2 == tk'["t1"].b
                 res == ret'["t1"]
                 n == Min(size, b.w - b.r)
             IN /\ res.n = n
                /\ res.p = SubSeq(b.buf, b.r + 1, b.r + n)
                /\ b2 = [b EXCEPT !.r = b.r + n]
                /\ res.err = errEOF <=> b.closed /\ b2.r = b2.w
                /\ ~b.closed /\ b.r = b.w => res.err = errBufEmpty
                /\ ~b.closed /\ n >= 1 => res.err = NoErr]_vars

\* C33: Read returns the first n = min(len(p), w - r) unread bytes and advances
\* r by n; if r = w afterwards the error is EOF for a closed buffer and the
\* empty-read error for an open one, also when bytes were returned; if r < w
\* afterwards there is no error
C33_ReadErrorAfterCopy ==
    [][\A size \in 0 .. BufCap + 1 :
          BufferReadCall(size)
          => LET b == tk["t1"].b
                 b2 == tk'["t1"].b
                 res == ret'["t1"]
             IN /\ res.n = Min(size, b.w - b.r)
                /\ res.p = SubSeq(b.buf, b.r + 1, b.r + res.n)
                /\ b2 = [b EXCEPT !.r = b.r + res.n]
                /\ res.err = IF b2.r < b2.w THEN NoErr
                             ELSE IF b.closed THEN errEOF ELSE errBufEmpty]_vars

\* a Read on the open buffer returned the last unread byte together with the
\* empty-read error
C33_Witness ==
    /\ tk["t1"].pc = "buffer"
    /\ ret["t1"].op = "Read" /\ ret["t1"].n >= 1
    /\ ret["t1"].err = errBufEmpty
    /\ ~tk["t1"].b.closed /\ tk["t1"].b.r = tk["t1"].b.w

\* C34: Write on a closed buffer fails and changes nothing; on an open buffer
\* it appends the first min(len(p), cap - (w - r)) bytes of p behind the unread
\* bytes, which keep their values and order, and reports the full buffer
\* exactly when it copied fewer than len(p) bytes; the indices stay within
\* 0 <= r <= w <= cap, and a Read returns the front of the unread bytes
C34_BufferWrite ==
    /\ [](LET b == tk["t1"].b
          IN 0 <= b.r /\ b.r <= b.w /\ b.w <= Len(b.buf) /\ Len(b.buf) = BufCap)
    /\ [][\A p \in WriteArgs :
             BufferWriteCall(p)
             => LET b == tk["t1"].b
                    b2 == tk'["t1"].b
                    res == ret'["t1"]
                IN IF b.closed
                   THEN b2 = b /\ res.n = 0 /\ res.err = errBufClosed
                   ELSE /\ res.n = Min(Len(p), BufCap - (b.w - b.r))
                        /\ BufUnread(b2) = BufUnread(b) \o SubSeq(p, 1, res.n)
                        /\ ~b2.closed
                        /\ res.err = IF res.n < Len(p) THEN errBufFull ELSE NoErr]_vars
    /\ [][\A size \in 0 .. BufCap + 1 :
             BufferReadCall(size)
             => ret'["t1"].p \o BufUnread(tk'["t1"].b) = BufUnread(tk["t1"].b)]_vars

\* a Write filled the buffer to its end behind unread bytes that lie at
\* offset 0, copied a part of p and reported the full buffer
C34_Witness ==
    /\ tk["t1"].pc = "buffer"
    /\ ret["t1"].op = "Write" /\ ret["t1"].n >= 1
    /\ ret["t1"].err = errBufFull
    /\ tk["t1"].b.r = 0 /\ tk["t1"].b.w = BufCap
    /\ Len(BufUnread(tk["t1"].b)) = BufCap
    /\ BufUnread(tk["t1"].b)[1] # BufUnread(tk["t1"].b)[2]

(***************************************************************************)
(* Closing the receive pipe: the peer opens streams and sends DATA, with   *)
(* and without FIN; one goroutine resets streams and reads from them,      *)
(* another reads, and the connection fails at some point.                  *)
(***************************************************************************)
PipeCloseFrames ==
    {SynStreamFrame(id, h, fin, FALSE) : id \in 1 .. 2, h \in Hdrs, fin \in BOOLEAN}
    \cup {DataFrame(id, 2, fin) : id \in 1 .. 2, fin \in BOOLEAN}

NextPipeClose ==
    \/ \E f \in PipeCloseFrames :
          /\ f.t = "SYN_STREAM" => ~synStreamRejected(f)
          /\ f.t = "DATA" => DataReachesPipe(f)
          /\ ReadFrame(f)
    \/ ReadFail(errFramerRead)
    \/ \E id \in Ids : TeardownStream(id)
    \/ TeardownDone
    \/ \E id \in Ids : ResetCall("t1", id, RefusedStream)
    \/ ResetClose("t1")
    \/ \E t \in Tasks, id \in Ids : ReadCall(t, id, 1)
    \/ \E t \in Tasks : ReadPipe(t)
    \/ \E t \in Tasks : ReadUpdateWindow(t)
    \/ ReaderStep

SpecPipeClose == Init /\ [][NextPipeClose]_vars

\* pipes: empty or holding a byte, open or closed with an error
PipeSamples ==
    {[b |-> [r |-> 0, w |-> w, closed |-> FALSE], err |-> NoErr] : w \in {0, 1}}
    \cup {[b |-> [r |-> 0, w |-> w, closed |-> TRUE], err |-> e] :
             w \in {0, 1}, e \in {errEOF, errClosed}}
PipeCloseErrs == {errEOF, errClosed, resetError(RefusedStream)}

\* C35: a Close on a closed pipe changes nothing, so a closed receive pipe
\* keeps its first error; a Read on a closed pipe takes the buffered bytes and
\* returns no error while bytes remain, and returns the stored error once the
\* buffer is drained; the Close of an open pipe takes a waiting Read out of
\* its wait
C35_PipeCloseSticky ==
    /\ \A p \in PipeSamples, a \in PipeCloseErrs, b \in PipeCloseErrs :
          LET c == PipeClose(p, a)
          IN /\ c.b.closed
             /\ c.err = IF p.b.closed THEN p.err ELSE a
             /\ PipeClose(c, b) = c
             /\ ~PipeMustWait(c)
    /\ [][\A id \in Ids :
             /\ st[id].pipe.b.closed
                => st'[id].pipe.b.closed /\ st'[id].pipe.err = st[id].pipe.err
             /\ ~st[id].pipe.b.closed /\ st'[id].pipe.b.closed
                /\ Waiters(tk, "readWait", id) # {}
                => \E t \in Waiters(tk, "readWait", id) : tk'[t].pc = "read"]_vars
    /\ [][\A t \in Tasks :
             ReadPipe(t) /\ st[tk[t].id].pipe.b.closed
             => LET p == st[tk[t].id].pipe
                    n == Min(tk[t].size, BufLen(p.b))
                    left == BufLen(st'[tk[t].id].pipe.b)
                    e == IF left = 0 THEN p.err ELSE NoErr
                IN /\ left = BufLen(p.b) - n
                   /\ IF n >= 1
                      THEN tk'[t].pc = "updWin" /\ tk'[t].n = n /\ tk'[t].e = e
                      ELSE ret'[t] = Ret("Read", tk[t].id, 0, e, NilHeader)]_vars

\* the goroutine that reset a stream after its FIN had arrived, and then read
\* from it, got EOF, the error of the first Close
C35_Witness ==
    /\ ret["t1"].op = "Read" /\ ret["t1"].err = errEOF
    /\ st[ret["t1"].id].wclosed
    /\ st[ret["t1"].id].pipe.err = errEOF
    /\ \E i \in 1 .. Len(wire) :
          wire[i] = RstStreamFrame(ret["t1"].id, RefusedStream)

\* C36 as stated: on the wire no DATA and no SYN_REPLY frame of a stream
\* follows a frame of that stream that carries FIN or is an RST_STREAM
C36_NoFrameAfterEnd ==
    \A i \in 1 .. Len(wire), j \in 1 .. Len(wire) :
        /\ i < j
        /\ wire[i].id = wire[j].id
        /\ wire[i].t = "RST_STREAM" \/ wire[i].fin
        => wire[j].t \notin {"DATA", "SYN_REPLY"}

\* deltas of the WINDOW_UPDATE frames the peer sends for stream 1: invalid,
\* enough for one Write of one byte, enough for two
GrantDeltas == {0, 1, 2}
GrantFrames ==
    {SettingsFrame(SettingsInitialWindowSize, 0, 0)}
    \cup {WindowUpdateFrame(1, 0, d) : d \in GrantDeltas}

\* two goroutines Write one byte each on a stream opened with the send
\* window 0 while the reader takes WINDOW_UPDATE frames for it
NextGrant ==
    \/ \E f \in GrantFrames :
          /\ f.t = "SETTINGS" <=> nRead = 0
          /\ ReadFrame(f)
    \/ ReaderWuReset
    \/ ReaderWuClose
    \/ nRead >= 1 /\ ~st[1].made /\ OpenCall("t1", FALSE, FALSE)
    \/ OpenAdd("t1")
    \/ OpenFlags("t1")
    \/ OpenWrite("t1")
    \/ \E t \in Tasks : WriteCall(t, 1, SemCloseSize)
    \/ \E t \in Tasks : WriteDec(t)
    \/ \E t \in Tasks : WriteData(t)
    \/ \E t \in Tasks : WriteReset(t)
    \/ \E t \in Tasks : WriteResetClose(t)
    \/ \E t \in Tasks : WriteReady(t)
    \/ ReaderStep

SpecGrant == Init /\ [][NextGrant]_vars

\* credit of stream id that a Write has taken from the window for a DATA
\* frame it has not written yet
CreditTaken(id) ==
    LET held(t) == IF tk[t].pc = "wdata" /\ tk[t].id = id THEN tk[t].n ELSE 0
    IN held("t1") + held("t2")

\* the credit stream id was given so far, wherever it is now: in DATA frames
\* on the wire, with a Write, or still in the send window
CreditGiven(id) == DataBytes(wire, id) + CreditTaken(id) + st[id].wnd.n

\* C37: a stream starts with the credit initwnd and no DATA; only the Inc of
\* a WINDOW_UPDATE whose stream the reader found in the table changes the
\* credit the stream was given, by its delta; the window never goes below 0,
\* so the DATA bytes written for the stream never exceed initwnd plus the
\* deltas received
C37_DataWithinCredit ==
    /\ [](\A id \in Ids :
             st[id].made
             => st[id].wnd.n >= 0 /\ DataBytes(wire, id) <= CreditGiven(id))
    /\ [][\A id \in Ids :
             /\ ~st[id].made /\ st'[id].made
                => CreditGiven(id)' = initwnd /\ DataBytes(wire', id) = 0
             /\ st[id].made
                => CreditGiven(id)' - CreditGiven(id)
                     = IF ReaderStep /\ rd.pc = "wuInc" /\ rd.f.id = id
                       THEN rd.f.v
                       ELSE 0
             /\ \A d \in GrantDeltas :
                   ReadFrame(WindowUpdateFrame(id, 0, d)) =>
                       rd'.pc = IF id \in rstreams THEN "wuInc" ELSE "read"]_vars

\* two Writes on one stream that started with the window 0 have each written
\* their byte, and the credit of 2 that WINDOW_UPDATE frames brought is used up
C37_Witness ==
    \E id \in Ids :
        /\ st[id].made /\ st[id].wnd.n = 0
        /\ DataBytes(wire, id) = 2
        /\ ret["t1"] = Ret("Write", id, 1, NoErr, NilHeader)
        /\ ret["t2"] = Ret("Write", id, 1, NoErr, NilHeader)

(***************************************************************************)
(* Receive window: the peer opens stream 1 and sends DATA within the       *)
(* window it was given, while two goroutines read the stream.              *)
(***************************************************************************)
\* bytes of stream id the peer has sent and holds no WINDOW_UPDATE for, if
\* it has received every frame on the wire: the unread bytes of the pipe and
\* the bytes a Read took out and has not yet sent its WINDOW_UPDATE for
Unacked(id) ==
    LET taken(t) == IF tk[t].pc = "updWin" /\ tk[t].id = id THEN tk[t].n ELSE 0
    IN BufLen(st[id].pipe.b) + taken("t1") + taken("t2")

RecvLens == {0, 1, defaultInitWnd - 1, defaultInitWnd}
RecvFrames ==
    {SynStreamFrame(1, h, FALSE, FALSE) : h \in Hdrs}
    \cup {DataFrame(1, len, FALSE) : len \in RecvLens}
    \cup {DataFrame(1, 1, TRUE)}

\* the peer keeps its DATA within 64 KiB plus the deltas it has received
PeerInWindow(f) ==
    f.t = "DATA" /\ st[f.id].made => Unacked(f.id) + f.v <= defaultInitWnd

NextRecv ==
    \/ \E f \in RecvFrames :
          /\ f.t = "SYN_STREAM" => ~synStreamRejected(f)
          /\ PeerInWindow(f)
          /\ ReadFrame(f)
    \/ \E f \in DOMAIN gobag : GoWrite(f)
    \/ \E t \in Tasks, size \in ReadSizes : ReadCall(t, 1, size)
    \/ \E t \in Tasks : ReadPipe(t)
    \/ \E t \in Tasks : ReadUpdateWindow(t)
    \/ ReaderStep

SpecRecv == Init /\ [][NextRecv]_vars

\* C38: Unacked is what the peer has outstanding: it grows by the length of
\* a DATA frame that reaches the pipe and shrinks by the delta of a
\* WINDOW_UPDATE written; while the peer keeps it within 64 KiB and nobody
\* resets the stream, every DATA frame that reaches the pipe is stored whole,
\* the reader is never closed with the flow control error and no RST_STREAM
\* FlowControlError is sent
C38_NoFlowControlError ==
    /\ [](\A id \in Ids :
             /\ st[id].pipe.err # errFlowControl
             /\ ~(st[id].wnd.closed /\ st[id].wnd.err = errFlowControl)
             /\ rd.pc \notin {"dataFail", "reset"}
             /\ \A i \in 1 .. Len(wire) :
                   wire[i] # RstStreamFrame(id, FlowControlError))
    /\ [](rd.pc = "dataWrite" => Unacked(rd.f.id) + rd.f.v <= defaultInitWnd)
    /\ [][ReaderStep /\ rd.pc = "dataWrite" =>
             LET f == rd.f
                 res == PipeWrite(st[f.id].pipe, f.v, defaultInitWnd)
             IN /\ f \in RecvFrames
                /\ res.err = NoErr /\ res.n = f.v
                /\ \E id \in {f.id} : Unacked(id)' = Unacked(id) + f.v]_vars
    /\ [][\A t \in Tasks, id \in Ids :
             ReadUpdateWindow(t) /\ tk[t].id = id =>
                 /\ Unacked(id)' = Unacked(id) - tk[t].n
                 /\ wire' = Append(wire, WindowUpdateFrame(id, 0, tk[t].n))]_vars
    /\ [][\A id \in Ids :
             Unacked(id)' # Unacked(id) =>
                 \/ ReaderStep /\ rd.pc = "dataWrite" /\ rd.f.id = id
                 \/ \E t \in Tasks : ReadUpdateWindow(t) /\ tk[t].id = id]_vars

\* the pipe is full again after a Read took one byte out of a full pipe and
\* sent its WINDOW_UPDATE: the peer's next byte was stored behind the moved
\* data
C38_Witness ==
    /\ BufLen(st[1].pipe.b) = defaultInitWnd
    /\ st[1].pipe.b.r = 0
    /\ \E i \in 1 .. Len(wire) : wire[i] = WindowUpdateFrame(1, 0, 1)
    /\ nRead = 3

\* C39 as stated: a goroutine waits in Dec on an open window whose counter
\* is at least 1 only while a goroutine that Inc has woken is still about to
\* take its share; once the woken ones have run, nobody is left waiting at
\* a counter of 1 or more
C39_IncServesAll ==
    \A t \in Tasks :
        /\ tk[t].pc = "decWait"
        /\ ~st[tk[t].id].wnd.closed
        /\ st[tk[t].id].wnd.n >= 1
        => \E u \in Tasks \ {t} : tk[u].pc = "dec" /\ tk[u].id = tk[t].id

\* C40 as stated: when the Inc of a WINDOW_UPDATE for a live stream returns
\* the bad-increment error, the counter of the send window is the same
\* after the call as before it
C40_RejectedIncKeepsCounter ==
    [][\A f \in WndFrames :
          /\ f.t = "WINDOW_UPDATE"
          /\ ReaderStep /\ rd.pc = "wuInc" /\ rd.f = f
          /\ SemInc(st[f.id].wnd, ToInt32(f.hi, f.v)).err = errBadIncrement
          => st'[f.id].wnd.n = st[f.id].wnd.n]_vars

====
